---- MODULE Spec2Model ----
(***************************************************************************)
(* Automation Engine of ApplyCraft: the Redis-stream dispatcher of         *)
(* apps/worker/src/index.ts, the outcome recording of applyWithBrowser and *)
(* the per-user browser-context cache of automation.ts.                    *)
(***************************************************************************)
EXTENDS Integers, Sequences, FiniteSets, TLC

\* ------------------------------------------------------------------ bounds
MaxApps == 1
MaxFaults == 3
MaxUsers == 1
MaxTasks == 2
MaxCtx == 3
MaxCands == 2
MaxJobs == 2
MaxScoreLimit == 2
MaxFields == 2
MaxAnswerLimit == 2
MaxFillSteps == 2
MaxOptions == 2

\* --------------------------------------------------------------- constants
MAX_ATTEMPTS == 3
MAX_STEPS == 7
MAX_INDEED_STEPS == 5
\* computeMERNScore's numbers
NumBuckets == 6
NumPrefs == 4
MinBuckets == 2
HighBuckets == 4
TitlePoints == 35
BucketHalfPoints == 15
BucketCap == 45
PrefPoints == 5
PrefCap == 20
ScoreCap == 100
MatchThreshold == 65
NeutralScore == 50
ExactScore == 4
YesNoScore == 3
ContainScore == 2

Apps == 1..MaxApps
Users == 1..MaxUsers
Tasks == 1..MaxTasks
CtxIds == 1..MaxCtx
\* longest stream the producers, the requeues and the foreign entries can build
MaxStream == MaxApps * MAX_ATTEMPTS + MaxFaults

VARIABLES
  stream,        \* the APPLICATION_STREAM log: sequence of messages
  acks,          \* per message id: number of XACKs that removed it from the pending list
  groupExists,   \* the consumer group WORKER_GROUP exists
  lastDelivered, \* the group's last-delivered id
  groupStart,    \* the last-delivered id the group was created with
  pending,       \* the group's pending entries list: set of [id, consumer]
  status,        \* Application.status per application ("NONE": row not created)
  pid,           \* process id of the current worker incarnation (CONSUMER = worker-<pid>)
  pc,            \* position of the worker in run()/processJob()/applyWithBrowser()
  cur,           \* id of the message the for-loop body is working on (0: none)
  result,        \* applyWithBrowser's local `result`
  exitCause,     \* why the current worker incarnation ended ("none": it runs)
  faults,        \* number of failures so far (rejected calls, kills, foreign entries)
  fails,         \* per application: number of entries into run()'s catch block
  lastAttempts,  \* per application: last value of the catch block's local `attempts`
  recorded,      \* status written by applyWithBrowser's outcome update for the current message
  notifyFailed,  \* the outcome notification of the current message threw
  contexts,      \* automation.ts `contexts` map: userId -> context (0: no entry)
  ctxOpen,       \* per launched context: it is open (launched and not closed)
  ctxUser,       \* per launched context: the userId it was launched for (0: not launched)
  tkind,         \* per task: "job" (applyWithBrowser) or "auto" (runFullAutomation)
  tuser,         \* per task: its userId
  tpc,           \* per task: position in applyWithBrowser/runFullAutomation/getContext
  tctx,          \* per task: getContext's `existing`, then the caller's `context`
  tretry,        \* per task: applyWithBrowser is in the catch of its first attempt
  tpage,         \* per task: it holds an open page on tctx
  fpc,           \* position of the form flow (applyLinkedIn / applyIndeed)
  fsite,         \* the flow's site: "linkedin" or "indeed"
  fauto,         \* the autoSubmit setting the flow runs under
  fclosed,       \* the first scan's page text has the closed-job marker
  fapplied,      \* the first scan's page text has an already-applied marker
  fcands,        \* what each entry selector finds, in list order
  fentry,        \* index of the entry selector that won (0: none)
  floop,         \* the step loop was entered
  fstep,         \* number of loop bodies begun
  fvis,          \* affordances visible in the last step
  fact,          \* action decided in the last step
  fsubmitSeen,   \* a submit affordance was visible in some step
  fclicks,       \* kinds of affordance clicked so far
  flast,         \* affordance clicked in the last step ("none": no click)
  ffilled,       \* fields were filled
  fsuccess,      \* a success confirmation was observed after the submit click
  foutcome,      \* what the flow returned ("THROWN": it rejected)
  sevals,        \* evaluations of the posting at hand (0: none yet)
  sin,           \* the classifier's last input
  sout,          \* its result: score, isMatch, rejecting rule ("none": no rule rejected)
  sprev,         \* the input of the evaluation before the last one
  sprevOut,      \* and its result
  sbetween,      \* other postings were evaluated since the first evaluation
  slastIndex,    \* lastIndex of the module-level title patterns
  rpc,           \* position of runFullAutomation: "idle", "linkedin", "indeed", "done"
  rcfg,          \* the run's settings: AI enabled, resume skills, FORCE_APPLY, AI_SCORE_LIMIT
  rleft,         \* jobs left in the loop at hand
  rindeed,       \* jobs the Indeed search returns
  aiCount,       \* runFullAutomation's local `aiCount`
  aiCalls,       \* invocations of scoreJobMatch in this run
  rlast,         \* the last job's description, and what queueJob did with it
  rlogin,        \* per platform: how its login went in this run ("none": not tried yet)
  rbatch,        \* status of the run's JobImportBatch ("NONE": not created)
  rfail,         \* why runFullAutomation rejected ("none": it did not)
  wpc,           \* position of applyLinkedIn's step loop: "idle", "fill", "navigate", "done"
  wlimit,        \* aiAnswerLimit (0 also stands for AI answering switched off)
  wfields,       \* the text inputs of the page at hand: label, and whether it has a value
  wstep,         \* number of the step at hand
  wpass,         \* which call of fillAIQuestions of the step is running (1, 2, 3)
  wi,            \* fillAIQuestions' loop index
  wfilled,       \* fillAIQuestions' local `filled`
  wcache,        \* fillAIQuestions' local `cache`: key -> answer ("none": no entry)
  wasked,        \* keys the AI was asked about in this application
  wrepeat,       \* the AI was asked about a key it had been asked about before
  wansStep,      \* fields given an AI answer in the step at hand
  npc,           \* "typed": a value was typed into a field; "idle": before the next field
  nfield,        \* the field, its label's words and its answer
  ntyped,        \* the value typed
  ppc,           \* "chosen": a choice control was treated; "idle": before the next control
  pkind,         \* the control's kind: select, radio group, checkbox group
  panswer,       \* the answer to the control's label
  poptions,      \* the control's options
  pbest,         \* index of pickBestOption's `best` (0: null)
  pchoice,       \* what pickBestOption returned
  ptouched,      \* the control was given a value
  bpc,           \* position of applyWithBrowser ("returned", "rejected": it has ended)
  bplatform,     \* the job's platform
  bpage,         \* the page applyWithBrowser opened: "none", "open", "closed"
  bresult,       \* applyWithBrowser's local `result`
  bstatus,       \* Application.status of the job
  btimer,        \* the hold timer is armed
  bclosedBy,     \* the page.close() that closed the page ("none": not closed)
  upc,           \* position of the application's current delivery
  usite,         \* the platform of the application's job
  uauto,         \* AUTO_SUBMIT
  uattempts,     \* payload.attempts of the application's stream entry
  ustep,         \* 0-based index of the next loop body of the current flow
  uresult,       \* the flow's result in the current delivery
  usubmitted,    \* the site holds a submitted application for the job
  uclicks,       \* submit clicks over all deliveries
  uaccepted,     \* submit clicks the site accepted, over all deliveries
  urunClicked    \* the current delivery clicked submit

qlog == <<stream, acks>>
grp == <<groupExists, lastDelivered, groupStart>>
loc == <<cur, result, recorded, notifyFailed>>
cnt == <<fails, lastAttempts>>

qvars == <<stream, acks, groupExists, lastDelivered, groupStart, pending, status, pid, pc,
           cur, result, exitCause, faults, fails, lastAttempts, recorded, notifyFailed>>

cvars == <<contexts, ctxOpen, ctxUser, tkind, tuser, tpc, tctx, tretry, tpage>>

fvars == <<fpc, fsite, fauto, fclosed, fapplied, fcands, fentry, floop, fstep, fvis, fact,
           fsubmitSeen, fclicks, flast, ffilled, fsuccess, foutcome>>

\* what the dispatcher's steps and the session manager's steps leave alone
svars == <<sevals, sin, sout, sprev, sprevOut, sbetween, slastIndex>>

rvars == <<rpc, rcfg, rleft, rindeed, aiCount, aiCalls, rlast, rlogin, rbatch, rfail>>

wvars == <<wpc, wlimit, wfields, wstep, wpass, wi, wfilled, wcache, wasked, wrepeat, wansStep>>

nvars == <<npc, nfield, ntyped>>

pvars == <<ppc, pkind, panswer, poptions, pbest, pchoice, ptouched>>

bvars == <<bpc, bplatform, bpage, bresult, bstatus, btimer, bclosedBy>>

uvars == <<upc, usite, uauto, uattempts, ustep, uresult, usubmitted, uclicks, uaccepted, urunClicked>>

nonq == <<cvars, fvars, svars, rvars, wvars, nvars, pvars, bvars, uvars>>
nonc == <<qvars, fvars, svars, rvars, wvars, nvars, pvars, bvars, uvars>>
nonf == <<qvars, cvars, svars, rvars, wvars, nvars, pvars, bvars, uvars>>
nons == <<qvars, cvars, fvars, rvars, wvars, nvars, pvars, bvars, uvars>>
nonr == <<qvars, cvars, fvars, svars, wvars, nvars, pvars, bvars, uvars>>
nonw == <<qvars, cvars, fvars, svars, rvars, nvars, pvars, bvars, uvars>>
nonn == <<qvars, cvars, fvars, svars, rvars, wvars, pvars, bvars, uvars>>
nonp == <<qvars, cvars, fvars, svars, rvars, wvars, nvars, bvars, uvars>>
nonb == <<qvars, cvars, fvars, svars, rvars, wvars, nvars, pvars, uvars>>
nonu == <<qvars, cvars, fvars, svars, rvars, wvars, nvars, pvars, bvars>>

\* ------------------------------------------------------------ pure helpers
Min(a, b) == IF a < b THEN a ELSE b

\* JSON payload written by the producers (attempts: 0) and by the requeue.
JobMessage(a, n) == [kind |-> "job", app |-> a, attempts |-> n]

\* A stream entry that is not one of the producers' payloads.
ForeignMessage(k) == [kind |-> k, app |-> 0, attempts |-> 0]

\* XGROUP CREATE <stream> <group> "$": the group starts after the last entry.
GroupStartId(s) == Len(s)

ShouldRequeue_le(attempts) == attempts <= MAX_ATTEMPTS

\* index.ts:121  if (attempts < MAX_ATTEMPTS)
ShouldRequeue(attempts) == attempts < MAX_ATTEMPTS

\* automation.ts: status written for applyWithBrowser's `result`
OutcomeStatus(r) ==
  IF r = "APPLIED" THEN "APPLIED"
  ELSE IF r = "FAILED" THEN "FAILED"
  ELSE "MANUAL_INTERVENTION"

XAck_keep(p, id) == p

\* XACK: remove the entry from the pending entries list
XAck(p, id) == {e \in p : e.id # id}

RecordTerminalFailure_skip(st, a) == st

\* index.ts:134  prisma.application.update({ status: "FAILED" })
RecordTerminalFailure(st, a) == [st EXCEPT ![a] = "FAILED"]

CurApp == IF cur = 0 THEN 0 ELSE stream[cur].app

MsgsOf(a) == {i \in 1..Len(stream) : stream[i].kind = "job" /\ stream[i].app = a}
Delivered == IF groupExists THEN (groupStart + 1)..lastDelivered ELSE {}
PendingIds == {e.id : e \in pending}
CrashedEver == pid > 1 \/ pc = "exited"

\* ------------------------------------------------------------------- Init
QInit ==
  /\ stream = <<>>
  /\ acks = <<>>
  /\ groupExists = FALSE
  /\ lastDelivered = 0
  /\ groupStart = 0
  /\ pending = {}
  /\ status = [a \in Apps |-> "NONE"]
  /\ pid = 1
  /\ pc = "ensureGroup"
  /\ cur = 0
  /\ result = "MANUAL"
  /\ exitCause = "none"
  /\ faults = 0
  /\ fails = [a \in Apps |-> 0]
  /\ lastAttempts = [a \in Apps |-> 0]
  /\ recorded = "NONE"
  /\ notifyFailed = FALSE

\* ------------------------------------------------------- building blocks
XAdd(m) ==
  /\ stream' = Append(stream, m)
  /\ acks' = Append(acks, 0)

\* the handler goes on at l
Goto(l) ==
  /\ pc' = l
  /\ UNCHANGED <<exitCause, faults>>

\* a call of the handler rejects and the handler goes on at l
Throw(l) ==
  /\ faults < MaxFaults
  /\ faults' = faults + 1
  /\ pc' = l
  /\ UNCHANGED exitCause

\* run() rejects: run().catch logs "Worker crashed" and calls process.exit(1)
Exit(cause) ==
  /\ faults < MaxFaults
  /\ faults' = faults + 1
  /\ pc' = "exited"
  /\ exitCause' = cause

\* the same, for a throw that is no injected failure but what the code does
\* with the entry it was given
ExitOn(cause) ==
  /\ pc' = "exited"
  /\ exitCause' = cause
  /\ UNCHANGED faults

\* xack of the current message, then the loop goes back to XREADGROUP
AckAndContinue ==
  /\ pending' = XAck(pending, cur)
  /\ acks' = [acks EXCEPT ![cur] = IF cur \in PendingIds THEN @ + 1 ELSE @]
  /\ cur' = 0
  /\ result' = "MANUAL"
  /\ recorded' = "NONE"
  /\ notifyFailed' = FALSE
  /\ Goto("read")

\* --------------------------------------------------------------- producers
\* POST /jobs, /jobs/bulk, discovery's enqueueApplication, queueJob: a new
\* Application row (QUEUED) and one stream entry with attempts 0.
EnqueueApplication ==
  \E a \in Apps :
    /\ status[a] = "NONE"
    /\ \A b \in Apps : b < a => status[b] # "NONE"
    /\ status' = [status EXCEPT ![a] = "QUEUED"]
    /\ XAdd(JobMessage(a, 0))
    /\ UNCHANGED <<grp, pending, pid, pc, exitCause, faults, loc, cnt>>
  /\ UNCHANGED nonq

\* An entry appended by another writer of the stream: no payload field, or a
\* payload field that is not JSON.
EnqueueForeign ==
  \E k \in {"nopayload", "badjson"} :
    /\ faults < MaxFaults
    /\ faults' = faults + 1
    /\ XAdd(ForeignMessage(k))
    /\ UNCHANGED <<grp, pending, status, pid, pc, exitCause, loc, cnt>>
  /\ UNCHANGED nonq

GroupCreate_reset(exists, position, s) == GroupStartId(s)

\* XGROUP CREATE on a group that exists answers BUSYGROUP and changes nothing
\* (the error is swallowed); on a new group the position is the "$" id
GroupCreate(exists, position, s) == IF exists THEN position ELSE GroupStartId(s)

\* ------------------------------------------------------------------ worker
\* index.ts:11-19  XGROUP CREATE ... "$" MKSTREAM; BUSYGROUP is swallowed
EnsureGroup ==
  /\ pc = "ensureGroup"
  /\ \E ok \in BOOLEAN :
       IF ok
       THEN /\ groupExists' = TRUE
            /\ lastDelivered' = GroupCreate(groupExists, lastDelivered, stream)
            /\ groupStart' = GroupCreate(groupExists, groupStart, stream)
            /\ Goto("read")
       ELSE /\ Exit("queue")
            /\ UNCHANGED grp
  /\ UNCHANGED <<qlog, pending, status, pid, loc, cnt>>
  /\ UNCHANGED nonq

\* XREADGROUP GROUP <group> <consumer> BLOCK 5000 COUNT 1 STREAMS <stream> ">"
ReadGroup ==
  /\ pc = "read"
  /\ groupExists
  /\ lastDelivered < Len(stream)
  /\ LET id == lastDelivered + 1 IN
       /\ lastDelivered' = id
       /\ pending' = pending \cup {[id |-> id, consumer |-> pid]}
       /\ cur' = id
  /\ Goto("parse")
  /\ UNCHANGED <<qlog, groupExists, groupStart, status, pid, result, recorded, notifyFailed, cnt>>
  /\ UNCHANGED nonq

\* the XREADGROUP call rejects
ReadFails ==
  /\ pc = "read"
  /\ Exit("queue")
  /\ UNCHANGED <<qlog, grp, pending, status, pid, loc, cnt>>
  /\ UNCHANGED nonq

\* index.ts:97-100  if (!map.payload) { xack; continue }
SkipNoPayload ==
  /\ pc = "parse"
  /\ stream[cur].kind = "nopayload"
  /\ \E ok \in BOOLEAN :
       IF ok
       THEN AckAndContinue
       ELSE /\ Exit("queue")
            /\ UNCHANGED <<pending, acks, loc>>
  /\ UNCHANGED <<stream, grp, status, pid, cnt>>
  /\ UNCHANGED nonq

\* index.ts:102  JSON.parse(map.payload), outside the try block
ParsePayload ==
  /\ pc = "parse"
  /\ stream[cur].kind # "nopayload"
  /\ IF stream[cur].kind = "job"
     THEN Goto("processJob")
     ELSE ExitOn("parse")
  /\ UNCHANGED <<qlog, grp, pending, status, pid, loc, cnt>>
  /\ UNCHANGED nonq

\* index.ts:39-42  processJob: status := PROCESSING
ProcessJobUpdate ==
  /\ pc = "processJob"
  /\ \E ok \in BOOLEAN :
       IF ok
       THEN /\ status' = [status EXCEPT ![CurApp] = "PROCESSING"]
            /\ Goto("awb_getContext")
       ELSE /\ Throw("catch")
            /\ UNCHANGED status
  /\ UNCHANGED <<qlog, grp, pending, pid, loc, cnt>>
  /\ UNCHANGED nonq

\* applyWithBrowser: first getContext/newPage
AwbGetContext ==
  /\ pc = "awb_getContext"
  /\ \E ok \in BOOLEAN : IF ok THEN Goto("awb_try") ELSE Throw("awb_retry")
  /\ UNCHANGED <<qlog, grp, pending, status, pid, loc, cnt>>
  /\ UNCHANGED nonq

\* applyWithBrowser: the retry in the catch of the first attempt; a throw
\* here leaves applyWithBrowser
AwbRetryContext ==
  /\ pc = "awb_retry"
  /\ \E ok \in BOOLEAN : IF ok THEN Goto("awb_try") ELSE Throw("catch")
  /\ UNCHANGED <<qlog, grp, pending, status, pid, loc, cnt>>
  /\ UNCHANGED nonq

\* applyWithBrowser: status := PROCESSING at the head of the try block
AwbMarkProcessing ==
  /\ pc = "awb_try"
  /\ \E ok \in BOOLEAN :
       IF ok
       THEN /\ status' = [status EXCEPT ![CurApp] = "PROCESSING"]
            /\ Goto("awb_flow")
       ELSE /\ Throw("awb_catch")
            /\ UNCHANGED status
  /\ UNCHANGED <<qlog, grp, pending, pid, loc, cnt>>
  /\ UNCHANGED nonq

\* applyWithBrowser: the platform flow.  "REJECT" is one of the validation
\* failures that write FAILED and return; "THROW" is any exception.
AwbFlow ==
  /\ pc = "awb_flow"
  /\ \E o \in {"APPLIED", "MANUAL", "FAILED", "REJECT", "THROW"} :
       CASE o = "REJECT" ->
              /\ status' = [status EXCEPT ![CurApp] = "FAILED"]
              /\ Goto("publishFinished")
              /\ UNCHANGED result
         [] o = "THROW" ->
              /\ Throw("awb_catch")
              /\ UNCHANGED <<status, result>>
         [] OTHER ->
              /\ result' = o
              /\ Goto("awb_record")
              /\ UNCHANGED status
  /\ UNCHANGED <<qlog, grp, pending, pid, cur, recorded, notifyFailed, cnt>>
  /\ UNCHANGED nonq

\* applyWithBrowser: the outcome update
AwbRecord ==
  /\ pc = "awb_record"
  /\ \E ok \in BOOLEAN :
       IF ok
       THEN /\ status' = [status EXCEPT ![CurApp] = OutcomeStatus(result)]
            /\ recorded' = OutcomeStatus(result)
            /\ Goto("awb_notify")
       ELSE /\ Throw("awb_catch")
            /\ UNCHANGED <<status, recorded>>
  /\ UNCHANGED <<qlog, grp, pending, pid, cur, result, notifyFailed, cnt>>
  /\ UNCHANGED nonq

\* applyWithBrowser: await sendStatusNotification(...) inside the try block
AwbNotify ==
  /\ pc = "awb_notify"
  /\ \E ok \in BOOLEAN :
       IF ok
       THEN /\ Goto("awb_finish")
            /\ UNCHANGED notifyFailed
       ELSE /\ Throw("awb_catch")
            /\ notifyFailed' = TRUE
  /\ UNCHANGED <<qlog, grp, pending, status, pid, cur, result, recorded, cnt>>
  /\ UNCHANGED nonq

\* applyWithBrowser: MANUAL publishes STEP_COMPLETED and arms the hold timer,
\* the other results close the page
AwbFinish ==
  /\ pc = "awb_finish"
  /\ \E ok \in BOOLEAN :
       IF ok
       THEN Goto("publishFinished")
       ELSE /\ result = "MANUAL"
            /\ Throw("awb_catch")
  /\ UNCHANGED <<qlog, grp, pending, status, pid, loc, cnt>>
  /\ UNCHANGED nonq

\* applyWithBrowser's catch: status := FAILED
AwbCatch ==
  /\ pc = "awb_catch"
  /\ \E ok \in BOOLEAN :
       IF ok
       THEN /\ status' = [status EXCEPT ![CurApp] = "FAILED"]
            /\ Goto("awb_catch_notify")
       ELSE /\ Throw("catch")
            /\ UNCHANGED status
  /\ UNCHANGED <<qlog, grp, pending, pid, loc, cnt>>
  /\ UNCHANGED nonq

\* applyWithBrowser's catch: sendStatusNotification(FAILED)
AwbCatchNotify ==
  /\ pc = "awb_catch_notify"
  /\ \E ok \in BOOLEAN : IF ok THEN Goto("awb_catch_publish") ELSE Throw("catch")
  /\ UNCHANGED <<qlog, grp, pending, status, pid, loc, cnt>>
  /\ UNCHANGED nonq

\* applyWithBrowser's catch: publishEvent(ERROR_OCCURRED), page.close
AwbCatchPublish ==
  /\ pc = "awb_catch_publish"
  /\ \E ok \in BOOLEAN : IF ok THEN Goto("publishFinished") ELSE Throw("catch")
  /\ UNCHANGED <<qlog, grp, pending, status, pid, loc, cnt>>
  /\ UNCHANGED nonq

\* index.ts:113  publishEvent(JOB_FINISHED), inside the try block
PublishFinished ==
  /\ pc = "publishFinished"
  /\ \E ok \in BOOLEAN : IF ok THEN Goto("xack") ELSE Throw("catch")
  /\ UNCHANGED <<qlog, grp, pending, status, pid, loc, cnt>>
  /\ UNCHANGED nonq

\* index.ts:118  xack, inside the try block
AckSuccess ==
  /\ pc = "xack"
  /\ \E ok \in BOOLEAN :
       IF ok
       THEN AckAndContinue
       ELSE /\ Throw("catch")
            /\ UNCHANGED <<pending, acks, loc>>
  /\ UNCHANGED <<stream, grp, status, pid, cnt>>
  /\ UNCHANGED nonq

\* index.ts:119-137  catch: requeue or record the terminal failure
CatchFailure ==
  /\ pc = "catch"
  /\ LET a == CurApp
         attempts == stream[cur].attempts + 1 IN
       /\ fails' = [fails EXCEPT ![a] = @ + 1]
       /\ lastAttempts' = [lastAttempts EXCEPT ![a] = attempts]
       /\ \E ok \in BOOLEAN :
            IF ok
            THEN /\ Goto("catch_publish")
                 /\ IF ShouldRequeue(attempts)
                    THEN /\ XAdd(JobMessage(a, attempts))
                         /\ UNCHANGED status
                    ELSE /\ status' = RecordTerminalFailure(status, a)
                         /\ UNCHANGED qlog
            ELSE /\ Exit(IF ShouldRequeue(attempts) THEN "queue" ELSE "db")
                 /\ UNCHANGED <<qlog, status>>
  /\ UNCHANGED <<grp, pending, pid, loc>>
  /\ UNCHANGED nonq

\* index.ts:128/138  publishEvent(ERROR_OCCURRED) in the catch block
CatchPublish ==
  /\ pc = "catch_publish"
  /\ \E ok \in BOOLEAN : IF ok THEN Goto("catch_ack") ELSE Exit("publish")
  /\ UNCHANGED <<qlog, grp, pending, status, pid, loc, cnt>>
  /\ UNCHANGED nonq

\* index.ts:144  xack in the catch block
CatchAck ==
  /\ pc = "catch_ack"
  /\ \E ok \in BOOLEAN :
       IF ok
       THEN AckAndContinue
       ELSE /\ Exit("queue")
            /\ UNCHANGED <<pending, acks, loc>>
  /\ UNCHANGED <<stream, grp, status, pid, cnt>>
  /\ UNCHANGED nonq

\* the worker process is killed
Crash ==
  /\ pc # "exited"
  /\ Exit("kill")
  /\ UNCHANGED <<qlog, grp, pending, status, pid, loc, cnt>>
  /\ UNCHANGED nonq

\* the supervisor starts a new worker process: new pid, new CONSUMER name
Restart ==
  /\ pc = "exited"
  /\ pid' = pid + 1
  /\ pc' = "ensureGroup"
  /\ exitCause' = "none"
  /\ cur' = 0
  /\ result' = "MANUAL"
  /\ recorded' = "NONE"
  /\ notifyFailed' = FALSE
  /\ UNCHANGED <<qlog, grp, pending, status, faults, cnt>>
  /\ UNCHANGED nonq

\* ------------------------------------------------- session manager state
CInit ==
  /\ contexts = [u \in Users |-> 0]
  /\ ctxOpen = [c \in CtxIds |-> FALSE]
  /\ ctxUser = [c \in CtxIds |-> 0]
  /\ tkind = [t \in Tasks |-> "job"]
  /\ tuser = [t \in Tasks |-> 1]
  /\ tpc = [t \in Tasks |-> "idle"]
  /\ tctx = [t \in Tasks |-> 0]
  /\ tretry = [t \in Tasks |-> FALSE]
  /\ tpage = [t \in Tasks |-> FALSE]

OpenContextsOf(u) == {c \in CtxIds : ctxOpen[c] /\ ctxUser[c] = u}

\* outcomes of `await existing.pages()`: an open context answers; what a closed
\* one does is the browser library's business
ProbeOutcomes(c) == IF ctxOpen[c] THEN {TRUE} ELSE {TRUE, FALSE}

\* outcomes of `await context.newPage()`: a closed context rejects
NewPageOutcomes(c) == IF ctxOpen[c] THEN {TRUE, FALSE} ELSE {FALSE}

\* contexts.delete(userId)
CacheDelete(m, u) == [m EXCEPT ![u] = 0]

\* context c closes: its pages are gone and its "close" listener runs
\* contexts.delete(userId) for the user it was launched for
CloseContext(c) ==
  /\ ctxOpen' = [ctxOpen EXCEPT ![c] = FALSE]
  /\ tpage' = [t \in Tasks |-> tpage[t] /\ tctx[t] # c]

\* the task is over: its locals are gone
EndTask(t) ==
  /\ tpc' = [tpc EXCEPT ![t] = "idle"]
  /\ tctx' = [tctx EXCEPT ![t] = 0]
  /\ tretry' = [tretry EXCEPT ![t] = FALSE]
  /\ tkind' = [tkind EXCEPT ![t] = "job"]
  /\ tuser' = [tuser EXCEPT ![t] = 1]

\* getContext or newPage threw.  applyWithBrowser's first attempt catches it,
\* drops the cache entry and calls getContext again (which finds no entry and
\* launches); the retry and runFullAutomation let it propagate.
Raise(t) ==
  IF tkind[t] = "job" /\ ~tretry[t]
  THEN /\ contexts' = CacheDelete(contexts, tuser[t])
       /\ tretry' = [tretry EXCEPT ![t] = TRUE]
       /\ tpc' = [tpc EXCEPT ![t] = "gc_launch"]
       /\ tctx' = [tctx EXCEPT ![t] = 0]
       /\ UNCHANGED <<tkind, tuser>>
  ELSE /\ EndTask(t)
       /\ UNCHANGED contexts

\* ---------------------------------------------------- session manager steps
\* the worker loop calls processJob -> applyWithBrowser (one job at a time)
StartApply ==
  \E t \in Tasks, u \in Users :
    /\ tpc[t] = "idle"
    /\ \A o \in Tasks : tpc[o] # "idle" => tkind[o] # "job"
    /\ tkind' = [tkind EXCEPT ![t] = "job"]
    /\ tuser' = [tuser EXCEPT ![t] = u]
    /\ tpc' = [tpc EXCEPT ![t] = "gc_start"]
    /\ UNCHANGED <<contexts, ctxOpen, ctxUser, tctx, tretry, tpage, nonc>>

\* a message on AUTOMATION_CHANNEL: the subscriber calls runFullAutomation
StartAutomation ==
  \E t \in Tasks, u \in Users :
    /\ tpc[t] = "idle"
    /\ tkind' = [tkind EXCEPT ![t] = "auto"]
    /\ tuser' = [tuser EXCEPT ![t] = u]
    /\ tpc' = [tpc EXCEPT ![t] = "gc_start"]
    /\ UNCHANGED <<contexts, ctxOpen, ctxUser, tctx, tretry, tpage, nonc>>

\* getContext: const existing = contexts.get(userId)
GetContextLookup ==
  \E t \in Tasks :
    /\ tpc[t] = "gc_start"
    /\ tctx' = [tctx EXCEPT ![t] = contexts[tuser[t]]]
    /\ tpc' = [tpc EXCEPT ![t] = IF contexts[tuser[t]] # 0 THEN "gc_probe" ELSE "gc_launch"]
    /\ UNCHANGED <<contexts, ctxOpen, ctxUser, tkind, tuser, tretry, tpage, nonc>>

\* getContext: await existing.pages(); return existing, or on a throw
\* contexts.delete(userId) and go on to close the stale context
GetContextProbe ==
  \E t \in Tasks :
    /\ tpc[t] = "gc_probe"
    /\ \E ok \in ProbeOutcomes(tctx[t]) :
         IF ok
         THEN /\ tpc' = [tpc EXCEPT ![t] = "newPage"]
              /\ UNCHANGED contexts
         ELSE /\ tpc' = [tpc EXCEPT ![t] = "gc_close"]
              /\ contexts' = CacheDelete(contexts, tuser[t])
    /\ UNCHANGED <<ctxOpen, ctxUser, tkind, tuser, tctx, tretry, tpage, nonc>>

\* getContext: try { await existing.close() } catch {}
GetContextCloseStale ==
  \E t \in Tasks :
    /\ tpc[t] = "gc_close"
    /\ IF ctxOpen[tctx[t]]
       THEN /\ CloseContext(tctx[t])
            /\ contexts' = CacheDelete(contexts, ctxUser[tctx[t]])
       ELSE UNCHANGED <<ctxOpen, tpage, contexts>>
    /\ tpc' = [tpc EXCEPT ![t] = "gc_launch"]
    /\ UNCHANGED <<ctxUser, tkind, tuser, tctx, tretry, nonc>>

\* getContext: launchPersistentContext, context.on("close"), contexts.set
GetContextLaunch ==
  \E t \in Tasks :
    /\ tpc[t] = "gc_launch"
    /\ \E ok \in BOOLEAN :
         IF ok
         THEN \E c \in CtxIds :
                /\ ctxUser[c] = 0
                /\ \A d \in CtxIds : d < c => ctxUser[d] # 0
                /\ ctxOpen' = [ctxOpen EXCEPT ![c] = TRUE]
                /\ ctxUser' = [ctxUser EXCEPT ![c] = tuser[t]]
                /\ contexts' = [contexts EXCEPT ![tuser[t]] = c]
                /\ tctx' = [tctx EXCEPT ![t] = c]
                /\ tpc' = [tpc EXCEPT ![t] = "newPage"]
                /\ UNCHANGED <<tkind, tuser, tretry>>
         ELSE /\ Raise(t)
              /\ UNCHANGED <<ctxOpen, ctxUser>>
    /\ UNCHANGED <<tpage, nonc>>

\* page = await context.newPage()
NewPage ==
  \E t \in Tasks :
    /\ tpc[t] = "newPage"
    /\ \E ok \in NewPageOutcomes(tctx[t]) :
         IF ok
         THEN /\ tpage' = [tpage EXCEPT ![t] = TRUE]
              /\ tpc' = [tpc EXCEPT ![t] = "using"]
              /\ UNCHANGED <<contexts, tkind, tuser, tctx, tretry>>
         ELSE /\ Raise(t)
              /\ UNCHANGED tpage
    /\ UNCHANGED <<ctxOpen, ctxUser, nonc>>

\* the execution is over: page.close()
ReleasePage ==
  \E t \in Tasks :
    /\ tpc[t] = "using"
    /\ tpage' = [tpage EXCEPT ![t] = FALSE]
    /\ EndTask(t)
    /\ UNCHANGED <<contexts, ctxOpen, ctxUser, nonc>>

\* a browser goes away (its window is closed, its process dies): "close" fires
ContextClosed ==
  \E c \in CtxIds :
    /\ ctxOpen[c]
    /\ CloseContext(c)
    /\ contexts' = CacheDelete(contexts, ctxUser[c])
    /\ UNCHANGED <<ctxUser, tkind, tuser, tpc, tctx, tretry, nonc>>


\* ------------------------------------------------------- form state machine
FInit ==
  /\ fpc = "idle"
  /\ fsite = "linkedin"
  /\ fauto = TRUE
  /\ fclosed = FALSE
  /\ fapplied = FALSE
  /\ fcands = <<>>
  /\ fentry = 0
  /\ floop = FALSE
  /\ fstep = 0
  /\ fvis = {}
  /\ fact = "none"
  /\ fsubmitSeen = FALSE
  /\ fclicks = {}
  /\ flast = "none"
  /\ ffilled = FALSE
  /\ fsuccess = FALSE
  /\ foutcome = "NONE"

Sites == {"linkedin", "indeed"}

\* what an entry selector finds: nothing visible, a job-card link (an <a> whose
\* href has "similar-jobs" or "collections"), or an apply button/link
CandKinds == {"hidden", "card", "button"}

\* the affordances the step loop of each site looks for
Affordances(site) ==
  IF site = "linkedin" THEN {"submit", "review", "next", "dismiss"} ELSE {"submit", "next"}

StepLimit_oneMore(site) == MAX_STEPS + 1

\* for (let step = 0; step < MAX_STEPS; step++), MAX_INDEED_STEPS on Indeed
StepLimit(site) == IF site = "linkedin" THEN MAX_STEPS ELSE MAX_INDEED_STEPS

EntryPasses_noGuard(site, k) == k # "hidden"

\* a visible candidate is taken unless, on LinkedIn, it is a job-card link
EntryPasses(site, k) == IF site = "linkedin" THEN k = "button" ELSE k # "hidden"

RECURSIVE FindEntryFrom(_, _, _)
\* for (const sel of easyApplySelectors) { ... break; }
FindEntryFrom(site, cands, i) ==
  IF i > Len(cands) THEN 0
  ELSE IF EntryPasses(site, cands[i]) THEN i
  ELSE FindEntryFrom(site, cands, i + 1)

FindEntry(site, cands) == FindEntryFrom(site, cands, 1)

\* outcome of the entry search that found nothing
NoEntryOutcome(site, applied) ==
  IF site = "linkedin" /\ applied THEN "APPLIED" ELSE "MANUAL"

NextAction_reviewFirst(site, vis) ==
  IF site = "linkedin" /\ "review" \in vis THEN "review"
  ELSE IF "submit" \in vis THEN "submit"
  ELSE IF "next" \in vis THEN "next"
  ELSE "stall"

\* the order of the checks in the loop body: submit, review (LinkedIn), next
NextAction(site, vis) ==
  IF "submit" \in vis THEN "submit"
  ELSE IF site = "linkedin" /\ "review" \in vis THEN "review"
  ELSE IF "next" \in vis THEN "next"
  ELSE "stall"

\* what the flow returns after the submit click, given the confirmation it saw
SubmitOutcome_goOn(success) == "NONE"

SubmitOutcome(success) == "APPLIED"

\* no navigation affordance: does the loop break (step is the 0-based index)
StallBreaks(site, vis, step, late, anyButton) ==
  IF site = "linkedin"
  THEN "dismiss" \in vis \/ (~late /\ step >= 2 /\ ~anyButton)
  ELSE ~late /\ step >= 2

StopsAtReview_never(auto) == FALSE

\* if (!autoSubmit) return "MANUAL"
StopsAtReview(auto) == ~auto

\* one loop body after its fill: out is what the flow returns ("NONE": the loop
\* goes on), click the affordance clicked ("none": no click), succ the
\* confirmation seen.  The events published on the way are taken as accepted.
StepResult(site, auto, step, thrown, vis, late, anyButton, success) ==
  LET act == NextAction(site, vis)
      cont == IF step + 1 < StepLimit(site) THEN "NONE" ELSE "MANUAL"
  IN  CASE act = "submit" /\ StopsAtReview(auto) ->
             [out |-> "MANUAL", click |-> "none", succ |-> FALSE]
        [] act = "submit" /\ ~StopsAtReview(auto) ->
             IF thrown = "act"
             THEN [out |-> "THROWN", click |-> "none", succ |-> FALSE]
             ELSE [out |-> SubmitOutcome(success), click |-> "submit", succ |-> success]
        [] act \in {"review", "next"} ->
             IF thrown = "act"
             THEN [out |-> "THROWN", click |-> IF site = "linkedin" THEN act ELSE "none",
                   succ |-> FALSE]
             ELSE [out |-> cont, click |-> act, succ |-> FALSE]
        [] OTHER ->
             IF StallBreaks(site, vis, step, late, anyButton)
             THEN [out |-> "MANUAL", click |-> "none", succ |-> FALSE]
             ELSE IF thrown = "act" /\ ~late
             THEN [out |-> "THROWN", click |-> "none", succ |-> FALSE]
             ELSE [out |-> cont, click |-> "none", succ |-> FALSE]

\* the flow returns o, or rejects (o = "THROWN")
Return(o) ==
  /\ fpc' = "done"
  /\ foutcome' = o

\* the status applyWithBrowser records for what the flow did: its catch block
\* writes FAILED for a flow that rejected
FlowStatus(o) == IF o = "THROWN" THEN "FAILED" ELSE OutcomeStatus(o)

\* applyWithBrowser hands a job page to applyLinkedIn or applyIndeed
FormStart ==
  /\ fpc = "idle"
  /\ \E site \in Sites, auto \in BOOLEAN :
       /\ fsite' = site
       /\ fauto' = auto
  /\ fpc' = "scan"
  /\ UNCHANGED <<fclosed, fapplied, fcands, fentry, floop, fstep, fvis, fact, fsubmitSeen,
                 fclicks, flast, ffilled, fsuccess, foutcome>>
  /\ UNCHANGED nonf

\* the first scan (applyLinkedIn reads the page text): a closed job ends the flow
FormScan ==
  /\ fpc = "scan"
  /\ \E thrown \in BOOLEAN, closed \in BOOLEAN, applied \in BOOLEAN :
       IF thrown
       THEN /\ Return("THROWN")
            /\ UNCHANGED <<fclosed, fapplied>>
       ELSE /\ fsite = "indeed" => (~closed /\ ~applied)
            /\ fclosed' = closed
            /\ fapplied' = applied
            /\ IF closed THEN Return("FAILED") ELSE fpc' = "entry" /\ UNCHANGED foutcome
  /\ UNCHANGED <<fsite, fauto, fcands, fentry, floop, fstep, fvis, fact, fsubmitSeen, fclicks,
                 flast, ffilled, fsuccess>>
  /\ UNCHANGED nonf

\* the search for the entry affordance and its two short circuits
FormEntry ==
  /\ fpc = "entry"
  /\ \E cands \in [1..MaxCands -> CandKinds] :
       /\ fcands' = cands
       /\ fentry' = FindEntry(fsite, cands)
  /\ IF fentry' = 0
     THEN Return(NoEntryOutcome(fsite, fapplied))
     ELSE fpc' = "open" /\ UNCHANGED foutcome
  /\ UNCHANGED <<fsite, fauto, fclosed, fapplied, floop, fstep, fvis, fact, fsubmitSeen,
                 fclicks, flast, ffilled, fsuccess>>
  /\ UNCHANGED nonf

\* the entry affordance is activated and the form awaited
FormOpen ==
  /\ fpc = "open"
  /\ \E thrown \in BOOLEAN :
       IF thrown
       THEN /\ Return("THROWN")
            /\ UNCHANGED <<fclicks, floop>>
       ELSE /\ fclicks' = fclicks \cup {"entry"}
            /\ floop' = TRUE
            /\ fpc' = "step"
            /\ UNCHANGED foutcome
  /\ UNCHANGED <<fsite, fauto, fclosed, fapplied, fcands, fentry, fstep, fvis, fact,
                 fsubmitSeen, flast, ffilled, fsuccess>>
  /\ UNCHANGED nonf

\* one body of the step loop: fill, look, act
FormStep ==
  /\ fpc = "step"
  /\ fstep' = fstep + 1
  /\ ffilled' = TRUE
  /\ \E thrown \in {"no", "fill", "act"}, vis \in SUBSET Affordances(fsite),
        late \in BOOLEAN, anyButton \in BOOLEAN, success \in BOOLEAN :
       IF thrown = "fill"
       THEN /\ Return("THROWN")
            /\ UNCHANGED <<fvis, fact, fsubmitSeen, fclicks, flast, fsuccess>>
       ELSE LET r == StepResult(fsite, fauto, fstep, thrown, vis, late, anyButton, success)
            IN  /\ fvis' = vis
                /\ fact' = NextAction(fsite, vis)
                /\ fsubmitSeen' = (fsubmitSeen \/ "submit" \in vis)
                /\ fclicks' = IF r.click = "none" THEN fclicks ELSE fclicks \cup {r.click}
                /\ flast' = r.click
                /\ fsuccess' = r.succ
                /\ IF r.out = "NONE"
                   THEN fpc' = "step" /\ UNCHANGED foutcome
                   ELSE Return(r.out)
  /\ UNCHANGED <<fsite, fauto, fclosed, fapplied, fcands, fentry, floop>>
  /\ UNCHANGED nonf

\* the caller has the result; the next job gets a new flow
FormReset ==
  /\ fpc = "done"
  /\ fpc' = "idle"
  /\ fsite' = "linkedin"
  /\ fauto' = TRUE
  /\ fclosed' = FALSE
  /\ fapplied' = FALSE
  /\ fcands' = <<>>
  /\ fentry' = 0
  /\ floop' = FALSE
  /\ fstep' = 0
  /\ fvis' = {}
  /\ fact' = "none"
  /\ fsubmitSeen' = FALSE
  /\ fclicks' = {}
  /\ flast' = "none"
  /\ ffilled' = FALSE
  /\ fsuccess' = FALSE
  /\ foutcome' = "NONE"
  /\ UNCHANGED nonf

FormNext ==
  \/ FormStart
  \/ FormScan
  \/ FormEntry
  \/ FormOpen
  \/ FormStep
  \/ FormReset

\* ------------------------------------------------------------ the classifier
\* a location: none given, a place with no remote/anywhere/worldwide in it, or
\* one that has such a word
LocKinds == {"none", "specific", "remoteWord"}

\* what computeMERNScore's tests find in (title, description, location)
ScoreInputs ==
  [emptyTitle : BOOLEAN, remoteSignals : BOOLEAN, onsiteSignals : BOOLEAN, loc : LocKinds,
   excluded : BOOLEAN, senior : BOOLEAN, titleMatch : BOOLEAN, descLong : BOOLEAN,
   hits : 0..NumBuckets, prefs : 0..NumPrefs]

\* the postings the run evaluates between two evaluations of the posting at hand
OtherInputs ==
  [emptyTitle : BOOLEAN, remoteSignals : BOOLEAN, onsiteSignals : {FALSE}, loc : {"none"},
   excluded : BOOLEAN, senior : BOOLEAN, titleMatch : BOOLEAN, descLong : {FALSE},
   hits : {0}, prefs : {0}]

NoInput ==
  [emptyTitle |-> TRUE, remoteSignals |-> FALSE, onsiteSignals |-> FALSE, loc |-> "none",
   excluded |-> FALSE, senior |-> FALSE, titleMatch |-> FALSE, descLong |-> FALSE,
   hits |-> 0, prefs |-> 0]

\* Math.round of a score given in half points
RoundHalf(h) == (h + 1) \div 2

\* the early returns: { match_score: 0, is_match: false, confidence: "high" }
Reject(rule, reason) ==
  [score |-> 0, isMatch |-> FALSE, rule |-> rule, reason |-> reason, confidence |-> "high"]

isRemoteJob_anyReason(in) ==
  IF in.onsiteSignals THEN [remote |-> FALSE, reason |-> "onsite"]
  ELSE IF in.remoteSignals THEN [remote |-> TRUE, reason |-> "remote"]
  ELSE [remote |-> FALSE, reason |-> "no_indication"]

\* onsite/hybrid wording rejects; a specific location rejects unless a remote
\* signal is found; a remote signal accepts; no signal rejects
isRemoteJob(in) ==
  IF in.onsiteSignals THEN [remote |-> FALSE, reason |-> "onsite"]
  ELSE IF in.loc = "specific" /\ ~in.remoteSignals
  THEN [remote |-> FALSE, reason |-> "location"]
  ELSE IF in.remoteSignals THEN [remote |-> TRUE, reason |-> "remote"]
  ELSE [remote |-> FALSE, reason |-> "no_indication"]

TitleRegexGlobal_g == TRUE

\* the flags of MERN_TITLE_PATTERNS are /i: no g, no y
TitleRegexGlobal == FALSE

\* RegExp.prototype.test: a global regex searches from lastIndex and moves it
\* past the match (back to 0 on a failure); the others search from 0 and leave
\* lastIndex alone.  lastIndex 1 stands for "past the title's match".
RegexTest(global, lastIndex, hasMatch) ==
  LET found == hasMatch /\ (~global \/ lastIndex = 0)
  IN  [found |-> found,
       lastIndex |-> IF ~global THEN lastIndex ELSE IF found THEN 1 ELSE 0]

\* MERN_TITLE_PATTERNS.find((p) => p.pattern.test(title))
TitleFound(in) == RegexTest(TitleRegexGlobal, slastIndex, in.titleMatch).found

\* the evaluation gets as far as the title rule
ReachesTitleRule(in) ==
  ~in.emptyTitle /\ isRemoteJob(in).remote /\ ~in.excluded /\ ~in.senior

\* the module-level patterns after the evaluation of in
LastIndexAfter(in) ==
  IF ReachesTitleRule(in)
  THEN RegexTest(TitleRegexGlobal, slastIndex, in.titleMatch).lastIndex
  ELSE slastIndex

\* Math.min(hits.length * 7.5, 45), in half points
BucketHalfScore(hits) == Min(hits * BucketHalfPoints, 2 * BucketCap)

\* Math.min(prefs.length * 5, 20)
PrefBonus(prefs) == Min(prefs * PrefPoints, PrefCap)

IsMatch_low(finalScore) == finalScore >= TitlePoints

IsMatch_strict(finalScore) == finalScore > MatchThreshold

IsMatch_titleAndBonus(finalScore) == finalScore >= TitlePoints + PrefCap

\* const isMatch = finalScore >= 65
IsMatch(finalScore) == finalScore >= MatchThreshold

Confidence_medium(hits) == "medium"

\* hits.length >= 4 ? "high" : hits.length >= 2 ? "medium" : "low"
Confidence(hits) ==
  IF hits >= HighBuckets THEN "high" ELSE IF hits >= MinBuckets THEN "medium" ELSE "low"

\* the rules after the title matched: buckets (only for a description of more
\* than 50 characters), preference bonus, final evaluation
ScoreMatchedTitle(in) ==
  LET half == 2 * TitlePoints + (IF in.descLong THEN BucketHalfScore(in.hits) ELSE 0)
      final == Min(RoundHalf(half + 2 * PrefBonus(in.prefs)), ScoreCap)
      conf == IF in.descLong THEN Confidence(in.hits) ELSE "low"
  IN  IF in.descLong /\ in.hits < MinBuckets
      THEN [score |-> RoundHalf(half), isMatch |-> FALSE, rule |-> "buckets",
            reason |-> "buckets", confidence |-> conf]
      ELSE [score |-> final, isMatch |-> IsMatch(final), rule |-> "none",
            reason |-> "none", confidence |-> conf]

computeMERNScore_seniorFirst(in) ==
  IF in.emptyTitle THEN Reject("empty", "empty")
  ELSE IF ~isRemoteJob(in).remote THEN Reject("remote", isRemoteJob(in).reason)
  ELSE IF in.senior THEN Reject("senior", "senior")
  ELSE IF in.excluded THEN Reject("exclusion", "exclusion")
  ELSE IF ~TitleFound(in) THEN Reject("title", "title")
  ELSE ScoreMatchedTitle(in)

\* the rules in the order of the code: empty title, remote, exclusion,
\* seniority, title, then the scoring rules
computeMERNScore(in) ==
  IF in.emptyTitle THEN Reject("empty", "empty")
  ELSE IF ~isRemoteJob(in).remote THEN Reject("remote", isRemoteJob(in).reason)
  ELSE IF in.excluded THEN Reject("exclusion", "exclusion")
  ELSE IF in.senior THEN Reject("senior", "senior")
  ELSE IF ~TitleFound(in) THEN Reject("title", "title")
  ELSE ScoreMatchedTitle(in)

\* validateMERNJob: pass is the classifier's is_match
validateMERNJob(in) ==
  [pass |-> computeMERNScore(in).isMatch, score |-> computeMERNScore(in).score]

\* validateMERNJob(title, null, location) and validateMERNJob(pageTitle): the
\* posting as the classifier sees it with no description
TitleOnly(in) == [in EXCEPT !.descLong = FALSE, !.hits = 0]

\* the pre-filter of searchLinkedIn and searchIndeed: the result is kept
PreFilterKeeps(forceApply, in) == forceApply \/ validateMERNJob(TitleOnly(in)).pass

\* applyWithBrowser's check of the job page's title on LinkedIn: the
\* application is marked FAILED before applyLinkedIn is called
PageTitleRejects(in) == ~in.emptyTitle /\ ~validateMERNJob(TitleOnly(in)).pass

SInit ==
  /\ sevals = 0
  /\ sin = NoInput
  /\ sout = Reject("empty", "empty")
  /\ sprev = sin
  /\ sprevOut = sout
  /\ sbetween = FALSE
  /\ slastIndex = 0

\* validateMERNJob: one posting is evaluated
Classify ==
  /\ sevals = 0
  /\ \E in \in ScoreInputs :
       /\ sin' = in
       /\ sout' = computeMERNScore(in)
       /\ slastIndex' = LastIndexAfter(in)
       /\ sprev' = in
       /\ sprevOut' = sout'
  /\ sevals' = 1
  /\ UNCHANGED sbetween
  /\ UNCHANGED nons

\* the posting is evaluated again with a description that mentions one more
\* technology bucket (and is no shorter), everything else as before
ClassifyOneMoreBucket ==
  /\ sevals = 1
  /\ sin.hits < NumBuckets
  /\ \E long \in BOOLEAN :
       /\ sin.descLong => long
       /\ sin' = [sin EXCEPT !.hits = @ + 1, !.descLong = long]
  /\ sout' = computeMERNScore(sin')
  /\ slastIndex' = LastIndexAfter(sin')
  /\ sprev' = sin
  /\ sprevOut' = sout
  /\ sevals' = 2
  /\ UNCHANGED sbetween
  /\ UNCHANGED nons

\* another posting is evaluated in between
ClassifyOther ==
  /\ sevals > 0
  /\ \E in \in OtherInputs : slastIndex' = LastIndexAfter(in)
  /\ sbetween' = TRUE
  /\ UNCHANGED <<sevals, sin, sout, sprev, sprevOut>>
  /\ UNCHANGED nons

\* the posting at hand is evaluated once more, as it is (search-time check,
\* then the check on the job page)
ClassifyAgain ==
  /\ sevals > 0
  /\ sprev' = sin
  /\ sprevOut' = sout
  /\ sout' = computeMERNScore(sin)
  /\ slastIndex' = LastIndexAfter(sin)
  /\ sevals' = 3
  /\ UNCHANGED <<sin, sbetween>>
  /\ UNCHANGED nons

\* the caller has the verdict and goes on to the next posting
NextPosting ==
  /\ sevals > 0
  /\ sevals' = 0
  /\ sin' = NoInput
  /\ sout' = Reject("empty", "empty")
  /\ sprev' = sin'
  /\ sprevOut' = sout'
  /\ sbetween' = FALSE
  /\ UNCHANGED slastIndex
  /\ UNCHANGED nons

ScoreNext ==
  \/ Classify
  \/ ClassifyOneMoreBucket
  \/ ClassifyOther
  \/ ClassifyAgain
  \/ NextPosting

\* ---------------------------------------------------------------------------
\* runFullAutomation's discovery loops: description fetch, deep validation,
\* queueJob and the AI scoring of ai.ts.  Scores are in hundredths.
\* ---------------------------------------------------------------------------

\* what fetchJobDescription returns: "" (failure or nothing extracted), a text
\* of at most 50 characters, a longer text; "null": no fetch was made
DescKinds == {"empty", "short", "long"}

\* scoreJob's heuristic score of a posting
HeuristicScores == {0, 50, 100}

\* what the provider call of scoreJobMatch ends in: a JSON text with a numeric
\* match_score, a rejected call, a text that is no JSON, a JSON text whose
\* match_score is no finite number
AIOutcomes == {"score", "callFails", "unparseable", "notFinite"}
MatchScores == {0, 80}

RunConfigs == [ai : BOOLEAN, skills : BOOLEAN, force : BOOLEAN, limit : 0..MaxScoreLimit]

FetchAllowed_always(ai, count, limit) == ai

\* the condition under which a job's description is fetched
FetchAllowed(ai, count, limit) == ai /\ count < limit

\* truthiness of the fetched description
HasDescription(description) == description \in {"short", "long"}

scoreJobMatch_noCatch(outcome, matchScore) ==
  IF outcome \in {"callFails", "unparseable"}
  THEN [score |-> 0, threw |-> TRUE]
  ELSE IF outcome = "notFinite" THEN [score |-> NeutralScore, threw |-> FALSE]
  ELSE [score |-> matchScore, threw |-> FALSE]

\* scoreJobMatch with a configured provider: the try block around the call and
\* the parse, its catch, and the Number.isFinite test
scoreJobMatch(outcome, matchScore) ==
  LET thrown == outcome \in {"callFails", "unparseable"}
  IN IF thrown THEN [score |-> NeutralScore, threw |-> FALSE]
     ELSE IF outcome = "notFinite" THEN [score |-> NeutralScore, threw |-> FALSE]
     ELSE [score |-> matchScore, threw |-> FALSE]

NoJob == [desc |-> "null", queued |-> FALSE, called |-> FALSE, outcome |-> "none",
          score |-> 0, threw |-> FALSE]

\* queueJob up to the score it stores: a duplicate posting fails the first
\* insert and is not scored
queueJob(cfg, description, dup, heuristic, outcome, matchScore) ==
  IF dup
  THEN [NoJob EXCEPT !.desc = description]
  ELSE IF cfg.ai /\ HasDescription(description) /\ cfg.skills
  THEN LET aiResult == scoreJobMatch(outcome, matchScore)
       IN [desc |-> description, queued |-> ~aiResult.threw, called |-> TRUE,
           outcome |-> outcome, score |-> aiResult.score, threw |-> aiResult.threw]
  ELSE [desc |-> description, queued |-> TRUE, called |-> FALSE, outcome |-> "none",
        score |-> heuristic, threw |-> FALSE]

\* the deep validation makes the loop go on to the next job
DeepSkip(site, force, description, pass) ==
  IF site = "linkedin" /\ force THEN FALSE
  ELSE description = "long" /\ ~pass

\* how ensureLinkedInLogin / ensureIndeedLogin and the search end: logged in
\* and searched, waitForLogin's LOGIN_TIMEOUT, another rejection
LoginOutcomes == {"ok", "timeout", "error"}

NoLogins == [linkedin |-> "none", indeed |-> "none"]

CatchLogin_rethrow(outcome) ==
  [skipped |-> outcome = "error", thrown |-> outcome = "timeout"]

\* the try/catch around a platform's login and search: both kinds of
\* rejection end in the catch, which notifies or logs and goes on
CatchLogin(outcome) == [skipped |-> outcome # "ok", thrown |-> FALSE]

RInit ==
  /\ rpc = "idle"
  /\ rlogin = NoLogins
  /\ rbatch = "NONE"
  /\ rfail = "none"
  /\ rcfg = [ai |-> FALSE, skills |-> FALSE, force |-> FALSE, limit |-> 0]
  /\ rleft = 0
  /\ rindeed = 0
  /\ aiCount = 0
  /\ aiCalls = 0
  /\ rlast = NoJob

\* runFullAutomation begins: environment settings, resume context, the
\* import batch
RunStart ==
  /\ rpc = "idle"
  /\ \E cfg \in RunConfigs : rcfg' = cfg
  /\ rleft' = 0
  /\ rindeed' = 0
  /\ rpc' = "linkedinLogin"
  /\ aiCount' = 0
  /\ aiCalls' = 0
  /\ rlast' = NoJob
  /\ rlogin' = NoLogins
  /\ rbatch' = "PROCESSING"
  /\ rfail' = "none"
  /\ UNCHANGED nonr

\* the outer catch: the batch is marked FAILED and the error is thrown on
RunRejects(cause) ==
  /\ rpc' = "done"
  /\ rbatch' = "FAILED"
  /\ rfail' = cause

\* a platform's login and search, and the catch around them
LoginStep(site, found) ==
  \E outcome \in LoginOutcomes :
    /\ rlogin' = [rlogin EXCEPT ![site] = outcome]
    /\ IF CatchLogin(outcome).thrown
       THEN RunRejects("login") /\ UNCHANGED <<rleft, rindeed>>
       ELSE /\ rleft' = IF CatchLogin(outcome).skipped THEN 0 ELSE found
            /\ rindeed' = IF site = "indeed" THEN rleft' ELSE rindeed
            /\ rpc' = site
            /\ UNCHANGED <<rbatch, rfail>>

\* ensureLinkedInLogin and the LinkedIn searches
RunLinkedInLogin ==
  /\ rpc = "linkedinLogin"
  /\ \E n \in 0..MaxJobs : LoginStep("linkedin", n)
  /\ UNCHANGED <<rcfg, aiCount, aiCalls, rlast>>
  /\ UNCHANGED nonr

\* one body of a discovery loop
JobStep(site) ==
  /\ rpc = site
  /\ rleft > 0
  /\ \E fetched \in DescKinds, pass \in BOOLEAN, dup \in BOOLEAN,
        h \in HeuristicScores, o \in AIOutcomes, ms \in MatchScores :
       LET description == IF FetchAllowed(rcfg.ai, aiCount, rcfg.limit)
                          THEN fetched ELSE "null"
           q == IF DeepSkip(site, rcfg.force, description, pass)
                THEN [NoJob EXCEPT !.desc = description]
                ELSE queueJob(rcfg, description, dup, h, o, ms)
       IN /\ aiCount' = IF HasDescription(description) THEN aiCount + 1 ELSE aiCount
          /\ aiCalls' = IF q.called THEN aiCalls + 1 ELSE aiCalls
          /\ rlast' = q
  /\ rleft' = rleft - 1
  /\ UNCHANGED <<rpc, rcfg, rindeed, rlogin, rbatch, rfail>>
  /\ UNCHANGED nonr

RunLinkedInJob == JobStep("linkedin")

\* the LinkedIn loop is over
RunLinkedInDone ==
  /\ rpc = "linkedin"
  /\ rleft = 0
  /\ rpc' = "indeedLogin"
  /\ UNCHANGED <<rcfg, rleft, rindeed, aiCount, aiCalls, rlast, rlogin, rbatch, rfail>>
  /\ UNCHANGED nonr

\* ensureIndeedLogin and the Indeed search
RunIndeedLogin ==
  /\ rpc = "indeedLogin"
  /\ \E m \in 0..MaxJobs : LoginStep("indeed", m)
  /\ UNCHANGED <<rcfg, aiCount, aiCalls, rlast>>
  /\ UNCHANGED nonr

\* a call of a discovery loop that no inner handler catches rejects (a page
\* that cannot be opened, a database write)
RunLoopRejects ==
  /\ rpc \in {"linkedin", "indeed"}
  /\ rleft > 0
  /\ RunRejects("other")
  /\ UNCHANGED <<rcfg, rleft, rindeed, aiCount, aiCalls, rlast, rlogin>>
  /\ UNCHANGED nonr

RunIndeedJob == JobStep("indeed")

\* the Indeed loop is over: the batch is marked COMPLETED
RunIndeedDone ==
  /\ rpc = "indeed"
  /\ rleft = 0
  /\ rpc' = "done"
  /\ rbatch' = "COMPLETED"
  /\ UNCHANGED <<rcfg, rleft, rindeed, aiCount, aiCalls, rlast, rlogin, rfail>>
  /\ UNCHANGED nonr

\* the run has returned; the next run starts from scratch
RunReturn ==
  /\ rpc = "done"
  /\ rpc' = "idle"
  /\ rcfg' = [ai |-> FALSE, skills |-> FALSE, force |-> FALSE, limit |-> 0]
  /\ rleft' = 0
  /\ rindeed' = 0
  /\ aiCount' = 0
  /\ aiCalls' = 0
  /\ rlast' = NoJob
  /\ rlogin' = NoLogins
  /\ rbatch' = "NONE"
  /\ rfail' = "none"
  /\ UNCHANGED nonr

RunNext ==
  \/ RunStart
  \/ RunLinkedInLogin
  \/ RunLinkedInJob
  \/ RunLinkedInDone
  \/ RunIndeedLogin
  \/ RunIndeedJob
  \/ RunLoopRejects
  \/ RunIndeedDone
  \/ RunReturn

\* ---------------------------------------------------------------------------
\* fillAIQuestions under applyLinkedIn's step loop: the text inputs of the
\* page, the answer cache of one call, the `filled` counter of one call.
\* ---------------------------------------------------------------------------

\* question labels as the page shows them: a wording, in lower case or not
QuestionNames == {"q1", "q2"}
QuestionLabels == [name : QuestionNames, caps : BOOLEAN]

\* label.toLowerCase(), the cache key
toLowerCase(label) == [label EXCEPT !.caps = FALSE]

\* what answerApplicationQuestion returns: an empty or a non-empty text
AIAnswers == {"", "text"}

EmptyCache == [k \in {toLowerCase(l) : l \in QuestionLabels} |-> "none"]

\* the pages of a form: one to MaxFields empty text inputs
FormPages ==
  UNION {[1..n -> [label : QuestionLabels, filled : {FALSE}]] : n \in 1..MaxFields}

\* getAnswer's `if (cached) return cached`
CacheHit(cached) == cached \notin {"none", ""}

\* the step loop's bound on re-fills and on steps
FillStepCap == IF MaxFillSteps < MAX_STEPS THEN MaxFillSteps ELSE MAX_STEPS

WInit ==
  /\ wpc = "idle"
  /\ wlimit = 0
  /\ wfields = <<>>
  /\ wstep = 0
  /\ wpass = 0
  /\ wi = 0
  /\ wfilled = 0
  /\ wcache = EmptyCache
  /\ wasked = {}
  /\ wrepeat = FALSE
  /\ wansStep = 0

\* a call of fillAIQuestions begins: new cache, filled = 0, first field
BeginFill(pass) ==
  /\ wpc' = "fill"
  /\ wpass' = pass
  /\ wi' = 1
  /\ wfilled' = 0
  /\ wcache' = EmptyCache

\* applyLinkedIn reaches its step loop: first step, first fill pass
ApplyStart ==
  /\ wpc = "idle"
  /\ \E limit \in 0..MaxAnswerLimit, page \in FormPages :
       /\ wlimit' = limit
       /\ wfields' = page
  /\ wstep' = 1
  /\ BeginFill(1)
  /\ wasked' = {}
  /\ wrepeat' = FALSE
  /\ wansStep' = 0
  /\ UNCHANGED nonw

\* one body of the loop over the text inputs
FillField ==
  /\ wpc = "fill"
  /\ wi <= Len(wfields)
  /\ wfilled < wlimit
  /\ LET field == wfields[wi]
         key == toLowerCase(field.label)
     IN IF field.filled
        THEN UNCHANGED <<wfields, wfilled, wcache, wasked, wrepeat, wansStep>>
        ELSE IF CacheHit(wcache[key])
        THEN \E fillErr \in BOOLEAN :
               /\ wfields' = [wfields EXCEPT ![wi].filled = ~fillErr]
               /\ wfilled' = IF fillErr THEN wfilled ELSE wfilled + 1
               /\ wansStep' = IF fillErr THEN wansStep ELSE wansStep + 1
               /\ UNCHANGED <<wcache, wasked, wrepeat>>
        ELSE \E answer \in AIAnswers, fillErr \in BOOLEAN :
               LET typed == answer # "" /\ ~fillErr
               IN /\ wcache' = [wcache EXCEPT ![key] = answer]
                  /\ wasked' = wasked \cup {key}
                  /\ wrepeat' = (wrepeat \/ key \in wasked)
                  /\ wfields' = [wfields EXCEPT ![wi].filled = typed]
                  /\ wfilled' = IF typed THEN wfilled + 1 ELSE wfilled
                  /\ wansStep' = IF typed THEN wansStep + 1 ELSE wansStep
  /\ wi' = wi + 1
  /\ UNCHANGED <<wpc, wlimit, wstep, wpass>>
  /\ UNCHANGED nonw

\* the first call of a step returns; the step looks for empty required
\* fields and validation errors and, if it finds any, fills once more
FillReturnFirst ==
  /\ wpc = "fill"
  /\ wpass = 1
  /\ wi > Len(wfields) \/ wfilled >= wlimit
  /\ \E allRequiredFilled \in BOOLEAN :
       IF ~allRequiredFilled /\ wstep < FillStepCap
       THEN BeginFill(2)
       ELSE /\ wpc' = "navigate"
            /\ UNCHANGED <<wpass, wi, wfilled, wcache>>
  /\ UNCHANGED <<wlimit, wfields, wstep, wasked, wrepeat, wansStep>>
  /\ UNCHANGED nonw

\* the re-fill call returns
FillReturnSecond ==
  /\ wpc = "fill"
  /\ wpass = 2
  /\ wi > Len(wfields) \/ wfilled >= wlimit
  /\ wpc' = "navigate"
  /\ UNCHANGED <<wlimit, wfields, wstep, wpass, wi, wfilled, wcache, wasked, wrepeat,
                 wansStep>>
  /\ UNCHANGED nonw

\* Review was clicked and errors are shown: the step fills again
NavigateReviewBlocked ==
  /\ wpc = "navigate"
  /\ BeginFill(3)
  /\ UNCHANGED <<wlimit, wfields, wstep, wasked, wrepeat, wansStep>>
  /\ UNCHANGED nonw

\* the call after the blocked review returns and the loop goes on to its next
\* step, on the same page
FillReturnThird ==
  /\ wpc = "fill"
  /\ wpass = 3
  /\ wi > Len(wfields) \/ wfilled >= wlimit
  /\ IF wstep < FillStepCap
     THEN /\ wstep' = wstep + 1
          /\ BeginFill(1)
          /\ wansStep' = 0
             ELSE /\ wpc' = "done"
          /\ UNCHANGED <<wstep, wpass, wi, wfilled, wcache, wansStep>>
  /\ UNCHANGED <<wlimit, wfields, wasked, wrepeat>>
  /\ UNCHANGED nonw

\* Next (or an unblocked Review) was clicked: the next step finds a new page
NavigateNext ==
  /\ wpc = "navigate"
  /\ wstep < FillStepCap
  /\ \E page \in FormPages : wfields' = page
  /\ wstep' = wstep + 1
  /\ BeginFill(1)
  /\ wansStep' = 0
  /\ UNCHANGED <<wlimit, wasked, wrepeat>>
  /\ UNCHANGED nonw

\* the flow returns (submitted, stopped at the review, stalled, out of steps)
NavigateReturn ==
  /\ wpc = "navigate"
  /\ wpc' = "done"
  /\ UNCHANGED <<wlimit, wfields, wstep, wpass, wi, wfilled, wcache, wasked, wrepeat,
                 wansStep>>
  /\ UNCHANGED nonw

\* the next application
ApplyEnd ==
  /\ wpc = "done"
  /\ wpc' = "idle"
  /\ wlimit' = 0
  /\ wfields' = <<>>
  /\ wstep' = 0
  /\ wpass' = 0
  /\ wi' = 0
  /\ wfilled' = 0
  /\ wcache' = EmptyCache
  /\ wasked' = {}
  /\ wrepeat' = FALSE
  /\ wansStep' = 0
  /\ UNCHANGED nonw

AnswerNext ==
  \/ ApplyStart
  \/ FillField
  \/ FillReturnFirst
  \/ FillReturnSecond
  \/ NavigateReviewBlocked
  \/ FillReturnThird
  \/ NavigateNext
  \/ NavigateReturn
  \/ ApplyEnd

\* ---------------------------------------------------------------------------
\* fillAIQuestions' treatment of one text input once it has a non-empty
\* answer: the numeric branch and its floor rules.
\* ---------------------------------------------------------------------------

\* answers of the AI, after the sanitizing (never empty here)
AnswerTexts == {"Negotiable", "0", "0 years", "3 years", "0.5"}

\* extractNumericAnswer: the first match of -?\d+(\.\d+)? or ""
extractNumericAnswer(answer) ==
  CASE answer = "Negotiable" -> ""
    [] answer = "0" -> "0"
    [] answer = "0 years" -> "0"
    [] answer = "3 years" -> "3"
    [] answer = "0.5" -> "0.5"

\* a field: its input type and the words its lower-cased label includes
\* (payWord: one of ctc, compensation, pay, expected; howWord: how long or
\* how many)
NumericFields ==
  [inputType : {"text", "number"}, years : BOOLEAN, experience : BOOLEAN,
   salary : BOOLEAN, payWord : BOOLEAN, howWord : BOOLEAN, answer : AnswerTexts]

NoField == [inputType |-> "text", years |-> FALSE, experience |-> FALSE, salary |-> FALSE,
            payWord |-> FALSE, howWord |-> FALSE, answer |-> "Negotiable"]

\* the condition of the numeric branch
IsNumericField(f) == f.inputType = "number" \/ f.years \/ f.salary \/ f.experience

isSalary(f) == f.salary \/ f.payWord

isExperience(f) == f.years \/ f.experience \/ f.howWord

\* the value given to field.fill
TypedValue(f) ==
  LET numeric == extractNumericAnswer(f.answer)
  IN IF IsNumericField(f)
     THEN IF isSalary(f) THEN (IF numeric = "" THEN "0" ELSE numeric)
          ELSE IF isExperience(f) THEN (IF numeric = "0" \/ numeric = "" THEN "1" ELSE numeric)
          ELSE (IF numeric = "" THEN "1" ELSE numeric)
     ELSE f.answer

NInit ==
  /\ npc = "idle"
  /\ nfield = NoField
  /\ ntyped = ""

\* a field with an answer is filled
TypeAnswer ==
  /\ npc = "idle"
  /\ \E f \in NumericFields :
       /\ nfield' = f
       /\ ntyped' = TypedValue(f)
  /\ npc' = "typed"
  /\ UNCHANGED nonn

\* the loop goes on to the next field
NextField ==
  /\ npc = "typed"
  /\ npc' = "idle"
  /\ nfield' = NoField
  /\ ntyped' = ""
  /\ UNCHANGED nonn

NumericNext ==
  \/ TypeAnswer
  \/ NextField

\* ---------------------------------------------------------------------------
\* pickBestOption and the choice controls of fillAIQuestions.  Texts are
\* sequences of characters.
\* ---------------------------------------------------------------------------

LowerAlnum == {"a", "e", "l", "n", "o", "r", "s", "y"}

\* String.prototype.toLowerCase on one character
LowerChar(c) ==
  CASE c = "N" -> "n"
    [] c = "O" -> "o"
    [] c = "Y" -> "y"
    [] OTHER -> c

\* runs of spaces become one space
RECURSIVE Squeeze(_)
Squeeze(s) ==
  IF Len(s) < 2 THEN s
  ELSE IF s[1] = " " /\ s[2] = " " THEN Squeeze(Tail(s))
  ELSE <<s[1]>> \o Squeeze(Tail(s))

\* String.prototype.trim on a text whose runs of spaces are single
Trim(s) ==
  LET a == IF Len(s) > 0 /\ s[1] = " " THEN Tail(s) ELSE s
  IN IF Len(a) > 0 /\ a[Len(a)] = " " THEN SubSeq(a, 1, Len(a) - 1) ELSE a

\* normalizeText: lower case, every run of other characters becomes one
\* space, trimmed
normalizeText(value) ==
  Trim(Squeeze([i \in 1..Len(value) |->
                  IF LowerChar(value[i]) \in LowerAlnum THEN LowerChar(value[i]) ELSE " "]))

\* String.prototype.includes
Includes(s, t) == \E i \in 0..(Len(s) - Len(t)) : SubSeq(s, i + 1, i + Len(t)) = t

\* split(" ").filter(Boolean) on a normalized text
RECURSIVE Tokens(_)
Tokens(s) ==
  IF s = <<>> THEN <<>>
  ELSE LET sp == {i \in 1..Len(s) : s[i] = " "}
       IN IF sp = {} THEN <<s>>
          ELSE LET k == CHOOSE i \in sp : \A j \in sp : i <= j
               IN <<SubSeq(s, 1, k - 1)>> \o Tokens(SubSeq(s, k + 1, Len(s)))

YesText == <<"y", "e", "s">>
NoText == <<"n", "o">>

\* the raw texts of the answers and of the options
AnswerRaws ==
  { <<>>,
    <<".">>,
    <<"O", "s", "l", "o">>,
    <<"o", "s", "l", "o", " ", "a", "r", "e", "a">>,
    <<"N", "o", ".">>,
    YesText }

OptionRaws ==
  { <<>>,
    <<"-", "-">>,
    <<"O", "s", "l", "o">>,
    <<"a", "r", "e", "a", ",", " ", "o", "s", "l", "o">>,
    <<"N", "o">>,
    <<"n", "o", " ", "a", "r", "e", "a">>,
    <<"Y", "e", "s">> }

\* an option of a control: its text, and its value (the text, or nothing)
OptionChoices == [text : OptionRaws, valued : BOOLEAN]

OptionValue(option) == IF option.valued THEN option.text ELSE <<>>

\* option.text || option.value
OptionText(option) == IF option.text # <<>> THEN option.text ELSE OptionValue(option)

hasYes(normalizedAnswer) == Includes(normalizedAnswer, YesText) \/ Includes(normalizedAnswer, <<"y">>)

hasNo(normalizedAnswer) == Includes(normalizedAnswer, NoText) \/ Includes(normalizedAnswer, <<"n">>)

Frac(n, d) == [num |-> n, den |-> d]

Greater_orEqual(a, b) == a.num * b.den >= b.num * a.den

\* score > bestScore
Greater(a, b) == a.num * b.den > b.num * a.den

OptionScore_exactFirst(option, normalizedAnswer) ==
  LET optionText == normalizeText(OptionText(option))
      tokens == Tokens(normalizedAnswer)
      hits == Cardinality({i \in 1..Len(tokens) : Includes(optionText, tokens[i])})
  IN IF optionText = <<>> THEN Frac(0, 1)
     ELSE IF normalizedAnswer = optionText THEN Frac(ExactScore, 1)
     ELSE IF hasYes(normalizedAnswer) /\ Includes(optionText, YesText) THEN Frac(YesNoScore, 1)
     ELSE IF hasNo(normalizedAnswer) /\ Includes(optionText, NoText) THEN Frac(YesNoScore, 1)
     ELSE IF Includes(normalizedAnswer, optionText) \/ Includes(optionText, normalizedAnswer)
     THEN Frac(ContainScore, 1)
     ELSE Frac(hits, IF Len(tokens) > 1 THEN Len(tokens) ELSE 1)

\* the score the loop of pickBestOption gives one option (0 for an option it
\* skips)
OptionScore(option, normalizedAnswer) ==
  LET optionText == normalizeText(OptionText(option))
      tokens == Tokens(normalizedAnswer)
      hits == Cardinality({i \in 1..Len(tokens) : Includes(optionText, tokens[i])})
  IN IF optionText = <<>> THEN Frac(0, 1)
     ELSE IF hasYes(normalizedAnswer) /\ Includes(optionText, YesText) THEN Frac(YesNoScore, 1)
     ELSE IF hasNo(normalizedAnswer) /\ Includes(optionText, NoText) THEN Frac(YesNoScore, 1)
     ELSE IF normalizedAnswer = optionText THEN Frac(ExactScore, 1)
     ELSE IF Includes(normalizedAnswer, optionText) \/ Includes(optionText, normalizedAnswer)
     THEN Frac(ContainScore, 1)
     ELSE Frac(hits, IF Len(tokens) > 1 THEN Len(tokens) ELSE 1)

\* the loop of pickBestOption up to option n: index of `best` (0: null)
RECURSIVE BestUpTo(_, _, _)
BestUpTo(options, normalizedAnswer, n) ==
  IF n = 0 THEN 0
  ELSE LET prev == BestUpTo(options, normalizedAnswer, n - 1)
           bestScore == IF prev = 0 THEN Frac(0, 1)
                        ELSE OptionScore(options[prev], normalizedAnswer)
       IN IF Greater(OptionScore(options[n], normalizedAnswer), bestScore) THEN n ELSE prev

\* index of the option pickBestOption settles on (0: it returns null)
BestIndex(options, answer) ==
  IF normalizeText(answer) = <<>> THEN 0
  ELSE BestUpTo(options, normalizeText(answer), Len(options))

NullChoice == <<"null">>

\* pickBestOption: best?.value ?? best?.text ?? null
pickBestOption(options, answer) ==
  IF BestIndex(options, answer) = 0 THEN NullChoice
  ELSE OptionValue(options[BestIndex(options, answer)])

ControlKinds == {"select", "radio", "checkbox"}

\* the options a control of a kind can have: the options of a radio or
\* checkbox group carry their label as value
ControlOptions(kind) ==
  UNION {[1..n -> IF kind = "select" THEN OptionChoices
                  ELSE {o \in OptionChoices : o.valued}] : n \in 0..MaxOptions}

\* `if (!choice) continue`
NoChoice(choice) == choice = NullChoice \/ choice = <<>>

PInit ==
  /\ ppc = "idle"
  /\ pkind = "select"
  /\ panswer = <<>>
  /\ poptions = <<>>
  /\ pbest = 0
  /\ pchoice = NullChoice
  /\ ptouched = FALSE

\* one control of the page and the answer to its label: an empty answer
\* skips the control, else pickBestOption, then the selectOption or the click
ChooseOption ==
  /\ ppc = "idle"
  /\ \E kind \in ControlKinds, answer \in AnswerRaws :
       \E options \in ControlOptions(kind), clickFails \in BOOLEAN :
         /\ pkind' = kind
         /\ panswer' = answer
         /\ poptions' = options
         /\ pbest' = BestIndex(options, answer)
         /\ pchoice' = pickBestOption(options, answer)
         /\ ptouched' = (/\ answer # <<>>
                        /\ ~NoChoice(pickBestOption(options, answer))
                        /\ ~clickFails)
  /\ ppc' = "chosen"
  /\ UNCHANGED nonp

\* the loop goes on to the next control
NextControl ==
  /\ ppc = "chosen"
  /\ ppc' = "idle"
  /\ pkind' = "select"
  /\ panswer' = <<>>
  /\ poptions' = <<>>
  /\ pbest' = 0
  /\ pchoice' = NullChoice
  /\ ptouched' = FALSE
  /\ UNCHANGED nonp

PickNext ==
  \/ ChooseOption
  \/ NextControl

\* ---------------------------------------------------------------------------
\* applyWithBrowser and the page it opens: early validation returns, the
\* outcome update and notification, the hold timer, the catch block.
\* ---------------------------------------------------------------------------

Platforms == {"LINKEDIN", "INDEED", "OTHER"}

\* what the platform branch of the try block ends in: a validation failure
\* that closes the page, writes FAILED and returns; an exception; a result
FlowEnds(platform) ==
  IF platform = "OTHER" THEN {"THROW", "MANUAL"}
  ELSE {"INVALID", "THROW", "APPLIED", "MANUAL", "FAILED"}

\* if (result === "MANUAL"): the page is left to the hold timer
HoldsPage(res) == res = "MANUAL"

BInit ==
  /\ bpc = "idle"
  /\ bplatform = "OTHER"
  /\ bpage = "none"
  /\ bresult = "MANUAL"
  /\ bstatus = "QUEUED"
  /\ btimer = FALSE
  /\ bclosedBy = "none"

\* page.close() at a place of the code
ClosePage(place) ==
  /\ bpage' = "closed"
  /\ bclosedBy' = IF bpage = "open" THEN place ELSE bclosedBy

\* getContext and newPage (with their one retry) have given a page
PageOpen ==
  /\ bpc = "idle"
  /\ \E platform \in Platforms : bplatform' = platform
  /\ bpage' = "open"
  /\ bpc' = "try"
  /\ UNCHANGED <<bresult, bstatus, btimer, bclosedBy>>
  /\ UNCHANGED nonb

\* status := PROCESSING at the head of the try block
PageMarkProcessing ==
  /\ bpc = "try"
  /\ \E ok \in BOOLEAN :
       IF ok THEN bstatus' = "PROCESSING" /\ bpc' = "flow"
       ELSE bpc' = "catch" /\ UNCHANGED bstatus
  /\ UNCHANGED <<bplatform, bpage, bresult, btimer, bclosedBy>>
  /\ UNCHANGED nonb

\* the platform branch: login, navigation, validations, the form flow
PageFlow ==
  /\ bpc = "flow"
  /\ \E end \in FlowEnds(bplatform), ok \in BOOLEAN :
       CASE end = "INVALID" ->
              /\ ClosePage("validation")
              /\ IF ok THEN bstatus' = "FAILED" /\ bpc' = "returned"
                 ELSE bpc' = "catch" /\ UNCHANGED bstatus
              /\ UNCHANGED bresult
         [] end = "THROW" ->
              /\ bpc' = "catch"
              /\ UNCHANGED <<bpage, bclosedBy, bstatus, bresult>>
         [] OTHER ->
              /\ bresult' = end
              /\ bpc' = "record"
              /\ UNCHANGED <<bpage, bclosedBy, bstatus>>
  /\ UNCHANGED <<bplatform, btimer>>
  /\ UNCHANGED nonb

\* the outcome update
PageRecord ==
  /\ bpc = "record"
  /\ \E ok \in BOOLEAN :
       IF ok THEN bstatus' = OutcomeStatus(bresult) /\ bpc' = "notify"
       ELSE bpc' = "catch" /\ UNCHANGED bstatus
  /\ UNCHANGED <<bplatform, bpage, bresult, btimer, bclosedBy>>
  /\ UNCHANGED nonb

\* sendStatusNotification inside the try block
PageNotify ==
  /\ bpc = "notify"
  /\ \E ok \in BOOLEAN : bpc' = IF ok THEN "finish" ELSE "catch"
  /\ UNCHANGED <<bplatform, bpage, bresult, bstatus, btimer, bclosedBy>>
  /\ UNCHANGED nonb

\* the end of the try block: MANUAL publishes the notice and arms the hold
\* timer, the other results close the page
PageFinish ==
  /\ bpc = "finish"
  /\ IF HoldsPage(bresult)
     THEN \E ok \in BOOLEAN :
            IF ok THEN /\ btimer' = TRUE
                       /\ bpc' = "returned"
                       /\ UNCHANGED <<bpage, bclosedBy>>
            ELSE /\ bpc' = "catch"
                 /\ UNCHANGED <<btimer, bpage, bclosedBy>>
     ELSE /\ ClosePage("finish")
          /\ bpc' = "returned"
          /\ UNCHANGED btimer
  /\ UNCHANGED <<bplatform, bresult, bstatus>>
  /\ UNCHANGED nonb

\* the catch block: status := FAILED; a rejection here leaves applyWithBrowser
PageCatch ==
  /\ bpc = "catch"
  /\ \E ok \in BOOLEAN :
       IF ok THEN bstatus' = "FAILED" /\ bpc' = "catchNotify"
       ELSE bpc' = "rejected" /\ UNCHANGED bstatus
  /\ UNCHANGED <<bplatform, bpage, bresult, btimer, bclosedBy>>
  /\ UNCHANGED nonb

\* the catch block: sendStatusNotification(FAILED)
PageCatchNotify ==
  /\ bpc = "catchNotify"
  /\ \E ok \in BOOLEAN : bpc' = IF ok THEN "catchPublish" ELSE "rejected"
  /\ UNCHANGED <<bplatform, bpage, bresult, bstatus, btimer, bclosedBy>>
  /\ UNCHANGED nonb

\* the catch block: publishEvent(ERROR_OCCURRED), then page.close
PageCatchPublish ==
  /\ bpc = "catchPublish"
  /\ \E ok \in BOOLEAN :
       IF ok THEN ClosePage("catch") /\ bpc' = "returned"
       ELSE bpc' = "rejected" /\ UNCHANGED <<bpage, bclosedBy>>
  /\ UNCHANGED <<bplatform, bresult, bstatus, btimer>>
  /\ UNCHANGED nonb

\* manualHoldMs have passed: the timer's callback closes the page
HoldElapses ==
  /\ btimer
  /\ btimer' = FALSE
  /\ ClosePage("timer")
  /\ UNCHANGED <<bpc, bplatform, bresult, bstatus>>
  /\ UNCHANGED nonb

\* the page is gone; the next job
PageNext ==
  /\ bpc \in {"returned", "rejected"}
  /\ bpage = "closed"
  /\ ~btimer
  /\ bpc' = "idle"
  /\ bplatform' = "OTHER"
  /\ bpage' = "none"
  /\ bresult' = "MANUAL"
  /\ bstatus' = "QUEUED"
  /\ bclosedBy' = "none"
  /\ UNCHANGED btimer
  /\ UNCHANGED nonb

PageNextStep ==
  \/ PageOpen
  \/ PageMarkProcessing
  \/ PageFlow
  \/ PageRecord
  \/ PageNotify
  \/ PageFinish
  \/ PageCatch
  \/ PageCatchNotify
  \/ PageCatchPublish
  \/ HoldElapses
  \/ PageNext

\* ---------------------------------------------------------------------------
\* One application over all its deliveries: the worker's requeue, the flow of
\* each delivery, and the job page of the site, which after an accepted
\* submission shows the previously-submitted marker and no entry affordance.
\* ---------------------------------------------------------------------------

\* what the entry selectors can find on the job page
EntryViews(submitted) ==
  IF submitted THEN {[i \in 1..MaxCands |-> "hidden"]}
  ELSE [1..MaxCands -> CandKinds]

UInit ==
  /\ upc = "idle"
  /\ usite = "linkedin"
  /\ uauto = TRUE
  /\ uattempts = 0
  /\ ustep = 0
  /\ uresult = "NONE"
  /\ usubmitted = FALSE
  /\ uclicks = 0
  /\ uaccepted = 0
  /\ urunClicked = FALSE

\* discovery creates the application and adds its one stream entry
DeliveryEnqueue ==
  /\ upc = "idle"
  /\ \E site \in Sites, auto \in BOOLEAN :
       /\ usite' = site
       /\ uauto' = auto
  /\ upc' = "queued"
  /\ UNCHANGED <<uattempts, ustep, uresult, usubmitted, uclicks, uaccepted, urunClicked>>
  /\ UNCHANGED nonu

\* XREADGROUP hands the entry to the worker; processJob marks PROCESSING and
\* applyWithBrowser opens the job page
DeliverApplication ==
  /\ upc = "queued"
  /\ \E ok \in BOOLEAN : upc' = IF ok THEN "entry" ELSE "workerCatch"
  /\ ustep' = 0
  /\ uresult' = "NONE"
  /\ urunClicked' = FALSE
  /\ UNCHANGED <<usite, uauto, uattempts, usubmitted, uclicks, uaccepted>>
  /\ UNCHANGED nonu

\* the first scan and the entry search of applyLinkedIn / applyIndeed
DeliveryEntry ==
  /\ upc = "entry"
  /\ \E thrown \in BOOLEAN, cands \in EntryViews(usubmitted) :
       IF thrown
       THEN upc' = "awbCatch" /\ UNCHANGED uresult
       ELSE IF FindEntry(usite, cands) = 0
       THEN /\ uresult' = NoEntryOutcome(usite, usubmitted)
            /\ upc' = "record"
       ELSE upc' = "step" /\ UNCHANGED uresult
  /\ UNCHANGED <<usite, uauto, uattempts, ustep, usubmitted, uclicks, uaccepted, urunClicked>>
  /\ UNCHANGED nonu

\* one body of the step loop; the site accepts a clicked submit or not, and
\* shows the confirmation when it does
DeliveryStep ==
  /\ upc = "step"
  /\ \E thrown \in {"no", "fill", "act"}, vis \in SUBSET Affordances(usite),
        late \in BOOLEAN, anyButton \in BOOLEAN, accepted \in BOOLEAN :
       IF thrown = "fill"
       THEN /\ upc' = "awbCatch"
            /\ UNCHANGED <<ustep, uresult, usubmitted, uclicks, uaccepted, urunClicked>>
       ELSE LET r == StepResult(usite, uauto, ustep, thrown, vis, late, anyButton, accepted)
                hit == r.click = "submit"
            IN  /\ uclicks' = IF hit THEN uclicks + 1 ELSE uclicks
                /\ uaccepted' = IF hit /\ accepted THEN uaccepted + 1 ELSE uaccepted
                /\ usubmitted' = (usubmitted \/ (hit /\ accepted))
                /\ urunClicked' = (urunClicked \/ hit)
                /\ ustep' = ustep + 1
                /\ CASE r.out = "NONE" -> upc' = "step" /\ UNCHANGED uresult
                     [] r.out = "THROWN" -> upc' = "awbCatch" /\ UNCHANGED uresult
                     [] OTHER -> upc' = "record" /\ uresult' = r.out
  /\ UNCHANGED <<usite, uauto, uattempts>>
  /\ UNCHANGED nonu

\* the outcome update, the notification and the end of applyWithBrowser's try
DeliveryRecord ==
  /\ upc = "record"
  /\ \E ok \in BOOLEAN : upc' = IF ok THEN "returned" ELSE "awbCatch"
  /\ UNCHANGED <<usite, uauto, uattempts, ustep, uresult, usubmitted, uclicks, uaccepted,
                 urunClicked>>
  /\ UNCHANGED nonu

\* applyWithBrowser's catch block: it returns, or one of its calls rejects
DeliveryCatch ==
  /\ upc = "awbCatch"
  /\ \E ok \in BOOLEAN : upc' = IF ok THEN "returned" ELSE "workerCatch"
  /\ UNCHANGED <<usite, uauto, uattempts, ustep, uresult, usubmitted, uclicks, uaccepted,
                 urunClicked>>
  /\ UNCHANGED nonu

\* processJob has returned: publishEvent(JOB_FINISHED), then XACK
DeliveryFinished ==
  /\ upc = "returned"
  /\ \E ok \in BOOLEAN : upc' = IF ok THEN "acked" ELSE "workerCatch"
  /\ UNCHANGED <<usite, uauto, uattempts, ustep, uresult, usubmitted, uclicks, uaccepted,
                 urunClicked>>
  /\ UNCHANGED nonu

\* the worker's catch: a new entry with attempts + 1 below MAX_ATTEMPTS, else
\* status FAILED; then XACK
DeliveryRequeue ==
  /\ upc = "workerCatch"
  /\ IF uattempts + 1 < MAX_ATTEMPTS
     THEN upc' = "queued" /\ uattempts' = uattempts + 1
     ELSE upc' = "acked" /\ UNCHANGED uattempts
  /\ UNCHANGED <<usite, uauto, ustep, uresult, usubmitted, uclicks, uaccepted, urunClicked>>
  /\ UNCHANGED nonu

\* the application has no entry left in the stream; the next application
DeliveryReset ==
  /\ upc = "acked"
  /\ upc' = "idle"
  /\ usite' = "linkedin"
  /\ uauto' = TRUE
  /\ uattempts' = 0
  /\ ustep' = 0
  /\ uresult' = "NONE"
  /\ usubmitted' = FALSE
  /\ uclicks' = 0
  /\ uaccepted' = 0
  /\ urunClicked' = FALSE
  /\ UNCHANGED nonu

DeliveryNext ==
  \/ DeliveryEnqueue
  \/ DeliverApplication
  \/ DeliveryEntry
  \/ DeliveryStep
  \/ DeliveryRecord
  \/ DeliveryCatch
  \/ DeliveryFinished
  \/ DeliveryRequeue
  \/ DeliveryReset

WorkerStep ==
  \/ EnsureGroup \/ ReadGroup \/ SkipNoPayload \/ ParsePayload \/ ProcessJobUpdate
  \/ AwbGetContext \/ AwbRetryContext \/ AwbMarkProcessing \/ AwbFlow \/ AwbRecord
  \/ AwbNotify \/ AwbFinish \/ AwbCatch \/ AwbCatchNotify \/ AwbCatchPublish
  \/ PublishFinished \/ AckSuccess \/ CatchFailure \/ CatchPublish \/ CatchAck

vars == <<qvars, cvars, fvars, svars, rvars, wvars, nvars, pvars, bvars, uvars>>

Init == QInit /\ CInit /\ FInit /\ SInit /\ RInit /\ WInit /\ NInit /\ PInit /\ BInit /\ UInit

Next ==
  \/ EnqueueApplication
  \/ EnqueueForeign
  \/ EnsureGroup
  \/ ReadGroup
  \/ ReadFails
  \/ SkipNoPayload
  \/ ParsePayload
  \/ ProcessJobUpdate
  \/ AwbGetContext
  \/ AwbRetryContext
  \/ AwbMarkProcessing
  \/ AwbFlow
  \/ AwbRecord
  \/ AwbNotify
  \/ AwbFinish
  \/ AwbCatch
  \/ AwbCatchNotify
  \/ AwbCatchPublish
  \/ PublishFinished
  \/ AckSuccess
  \/ CatchFailure
  \/ CatchPublish
  \/ CatchAck
  \/ Crash
  \/ Restart

Spec == Init /\ [][Next]_vars

CtxNext ==
  \/ StartApply
  \/ StartAutomation
  \/ GetContextLookup
  \/ GetContextProbe
  \/ GetContextCloseStale
  \/ GetContextLaunch
  \/ NewPage
  \/ ReleasePage
  \/ ContextClosed

\* the session manager under the worker's job task and the automation runs
SpecCtx == Init /\ [][CtxNext]_vars

\* the form flows, one after the other
SpecForm == Init /\ [][FormNext]_vars

\* the classifier, posting after posting
SpecScore == Init /\ [][ScoreNext]_vars

\* the discovery loops of the full-automation runs, one run after the other
SpecRun == Init /\ [][RunNext]_vars

\* the AI answering of the applications, one application after the other
SpecAnswer == Init /\ [][AnswerNext]_vars

\* the values typed into answered fields, field after field
SpecNumeric == Init /\ [][NumericNext]_vars

\* the choice controls, control after control
SpecPick == Init /\ [][PickNext]_vars

\* applyWithBrowser and its page, job after job
SpecPage == Init /\ [][PageNextStep]_vars

\* one application over its deliveries and requeues
SpecDeliveries == Init /\ [][DeliveryNext]_vars

\* the form flow under the event loop: a step that can run does run
FairSpecForm == SpecForm /\ WF_vars(FormNext)

\* the dispatcher while no worker process is killed
NoKillNext ==
  \/ EnqueueApplication
  \/ EnqueueForeign
  \/ EnsureGroup
  \/ ReadGroup
  \/ ReadFails
  \/ SkipNoPayload
  \/ ParsePayload
  \/ ProcessJobUpdate
  \/ AwbGetContext
  \/ AwbRetryContext
  \/ AwbMarkProcessing
  \/ AwbFlow
  \/ AwbRecord
  \/ AwbNotify
  \/ AwbFinish
  \/ AwbCatch
  \/ AwbCatchNotify
  \/ AwbCatchPublish
  \/ PublishFinished
  \/ AckSuccess
  \/ CatchFailure
  \/ CatchPublish
  \/ CatchAck
  \/ Restart

\* the scheduler runs the worker's continuation whenever one is ready, and
\* the supervisor restarts a worker that has exited
FairSpec == Spec /\ WF_vars(WorkerStep) /\ WF_vars(Restart)

\* the same, without kills of the worker process
FairNoKillSpec == Init /\ [][NoKillNext]_vars /\ WF_vars(WorkerStep) /\ WF_vars(Restart)

\* ------------------------------------------------------------------ claims
Terminal3 == {"APPLIED", "FAILED", "MANUAL_INTERVENTION"}
InHandler == {"catch", "catch_publish", "catch_ack"}
Requeued(a) == {i \in MsgsOf(a) : stream[i].attempts > 0}
DeliveredMsgs(a) == MsgsOf(a) \cap Delivered
\* every message of the application has been delivered and acknowledged
Settled(a) ==
  /\ DeliveredMsgs(a) # {}
  /\ \A i \in MsgsOf(a) : i \in Delivered /\ i \notin PendingIds

\* C1: after N consecutive failed attempts of a job the catch block's attempts
\* value is min(N, MAX_ATTEMPTS); a requeued copy is appended only while that
\* value is below 3, so an application has at most 3 messages (never a 4th
\* delivery); once the third failure has been handled and acknowledged the
\* status is FAILED and no copy is waiting.
C1_BoundedRetries ==
  \A a \in Apps :
    /\ fails[a] <= MAX_ATTEMPTS
    /\ lastAttempts[a] = Min(fails[a], MAX_ATTEMPTS)
    /\ \A i \in MsgsOf(a) : stream[i].attempts < MAX_ATTEMPTS
    /\ \A i \in Requeued(a) : stream[i].attempts <= fails[a]
    /\ Cardinality(Requeued(a)) <= Min(fails[a], MAX_ATTEMPTS - 1)
    /\ Cardinality(DeliveredMsgs(a)) <= MAX_ATTEMPTS
    /\ (fails[a] = MAX_ATTEMPTS /\ CurApp # a /\ Settled(a)) =>
         /\ status[a] = "FAILED"
         /\ Cardinality(DeliveredMsgs(a)) = MAX_ATTEMPTS

C1_Witness ==
  \E a \in Apps :
    /\ fails[a] = MAX_ATTEMPTS
    /\ Settled(a)
    /\ pc = "read"
    /\ status[a] = "FAILED"
    /\ Cardinality(DeliveredMsgs(a)) = MAX_ATTEMPTS

\* C2: a message that is pending when its worker process is killed is
\* delivered again and eventually acknowledged (it leaves the pending list).
C2_CrashedMessageRedelivered ==
  \A i \in 1..MaxStream :
    (pc = "exited" /\ exitCause = "kill" /\ cur = i /\ i \in PendingIds)
      ~> (i \notin PendingIds)

\* C3: once an application's status is APPLIED or FAILED, no step changes it.
C3_TerminalIsFinal ==
  [][\A a \in Apps : status[a] \in {"APPLIED", "FAILED"} => status'[a] = status[a]]_vars

\* C4: when every message of a delivered application has been acknowledged and
\* no copy is outstanding, its status is APPLIED, FAILED or MANUAL_INTERVENTION;
\* and unless a worker process ends, a delivered application gets there.
C4_Terminates ==
  /\ [](\A a \in Apps : Settled(a) => status[a] \in Terminal3)
  /\ \A a \in Apps : (DeliveredMsgs(a) # {}) ~> (Settled(a) \/ CrashedEver)

C4_Witness ==
  \E a \in Apps :
    /\ Settled(a)
    /\ ~CrashedEver
    /\ fails[a] > 0
    /\ status[a] = "MANUAL_INTERVENTION"

\* C5: the worker process ends only because the queue connection failed (or it
\* was killed), never because of a failure while handling one message.
C5_OnlyQueueFailureEndsWorker ==
  pc = "exited" => exitCause \in {"queue", "kill"}

\* C6: after the outcome update, a throwing notification leaves the recorded
\* status in place and does not make the job a failed job.
C6_NotificationNeverMasksOutcome ==
  notifyFailed => (status[CurApp] = recorded /\ pc \notin InHandler)

C8_EveryJobDelivered ==
  \A i \in 1..MaxStream :
    (i <= Len(stream) /\ stream[i].kind = "job") ~> (i \in Delivered \/ CrashedEver)

\* C9: no two executions hold pages on the same context at once.
C9_ContextNotShared ==
  \A s, t \in Tasks :
    (s # t /\ tpage[s] /\ tpage[t]) => tctx[s] # tctx[t]

\* C10: at most one open context per user, and a cache entry refers to it.
C10_OneOpenContextPerUser ==
  \A u \in Users :
    /\ Cardinality(OpenContextsOf(u)) <= 1
    /\ contexts[u] # 0 => contexts[u] \in OpenContextsOf(u)

\* C11: getContext returns only an open context: the cached one only after a
\* successful probe of a live context, a launched one as the new cache entry;
\* a failed probe removes the cache entry before the launch, and a context
\* that closes leaves no cache entry for its user.
C11_GetContextReturnsLive ==
  [][\A t \in Tasks :
       /\ (tpc[t] \in {"gc_probe", "gc_launch"} /\ tpc'[t] = "newPage")
            => /\ ctxOpen'[tctx'[t]]
               /\ tpc[t] = "gc_launch" => contexts'[tuser[t]] = tctx'[t]
       /\ (tpc[t] = "gc_probe" /\ tpc'[t] = "gc_close") => contexts'[tuser[t]] = 0
       /\ \A c \in CtxIds :
            (ctxOpen[c] /\ ~ctxOpen'[c]) => contexts'[ctxUser[c]] = 0]_vars

\* C12: ensureGroup on an existing group completes without error and leaves
\* the group's delivery position and pending set as they were; on a new group
\* it creates it; the only error it lets through is the queue's own.
C12_EnsureGroupIdempotent ==
  [][(pc = "ensureGroup" /\ pc' # "ensureGroup") =>
       /\ pending' = pending
       /\ stream' = stream
       /\ groupExists => grp' = grp
       /\ pc' \in {"read", "exited"}
       /\ pc' = "read" => groupExists'
       /\ pc' = "exited" => /\ exitCause' \in {"queue", "kill"}
                            /\ grp' = grp]_vars

\* a later worker process has run ensureGroup on a group that had delivered
\* messages and still has a pending entry
C12_Witness ==
  /\ pid >= 2
  /\ pc = "read"
  /\ groupExists
  /\ groupStart < lastDelivered
  /\ lastDelivered < Len(stream)
  /\ pending # {}

\* C13: a LinkedIn flow whose step loop never saw a submit affordance returns
\* MANUAL after at most MAX_STEPS loop bodies and does not reject.
C13_StallEndsManual ==
  (fsite = "linkedin" /\ fpc = "done" /\ floop /\ ~fsubmitSeen)
    => (foutcome = "MANUAL" /\ fstep <= MAX_STEPS)

\* C14: in every step the priority is submit, then review, then next: a
\* visible submit affordance is the one acted on, review is clicked only when
\* no submit is visible, next only when neither submit nor review is visible.
C14_SubmitReviewNextPriority ==
  fact # "none" =>
    /\ "submit" \in fvis => (fact = "submit" /\ flast \in {"submit", "none"})
    /\ flast = "submit" => "submit" \in fvis
    /\ flast = "review" => ("review" \in fvis /\ "submit" \notin fvis)
    /\ flast = "next" => ("next" \in fvis /\ fvis \cap {"submit", "review"} = {})

\* submit is clicked in a step that shows all three, after review and next
\* were clicked in earlier steps
C14_Witness ==
  /\ {"submit", "review", "next"} \subseteq fvis
  /\ flast = "submit"
  /\ {"review", "next"} \subseteq fclicks

C16_AppliedOnlyOnSuccess ==
  (foutcome = "APPLIED" /\ "submit" \in fclicks) => fsuccess

\* the flow ended before the step loop: nothing filled, nothing clicked
ShortCircuit == fpc = "done" /\ ~floop /\ ~ffilled /\ fclicks = {} /\ fstep = 0

PassesRemote(in) ==
  in.remoteSignals /\ ~in.onsiteSignals

\* C18: the rules are applied in the order remote, exclusion, seniority,
\* title, buckets, and the rule that rejects is the first one that fails and
\* gives score 0.
C18_FirstFailingRuleScoresZero ==
  (sevals > 0 /\ ~sin.emptyTitle) =>
    /\ sout.rule = "remote" <=> ~PassesRemote(sin)
    /\ sout.rule = "exclusion" <=> (PassesRemote(sin) /\ sin.excluded)
    /\ sout.rule = "senior" <=> (PassesRemote(sin) /\ ~sin.excluded /\ sin.senior)
    /\ sout.rule = "title" <=>
         (PassesRemote(sin) /\ ~sin.excluded /\ ~sin.senior /\ ~sin.titleMatch)
    /\ sout.rule = "buckets" =>
         /\ PassesRemote(sin) /\ ~sin.excluded /\ ~sin.senior /\ sin.titleMatch
         /\ sin.hits < MinBuckets
    /\ sout.rule # "none" => (sout.score = 0 /\ ~sout.isMatch)

\* C19: a description that matches fewer than 2 buckets is never a match.
C19_HardFloor ==
  (sevals > 0 /\ sin.hits < MinBuckets) => ~sout.isMatch

\* no rule rejected a posting with one bucket, a short description and the
\* whole preference bonus
C19_Witness ==
  /\ sevals > 0
  /\ sin.hits = 1
  /\ sin.titleMatch
  /\ sin.prefs = NumPrefs
  /\ sout.rule = "none"
  /\ sout.score = TitlePoints + PrefCap

\* C20: one more matched bucket, all else equal, never lowers the score.
C20_OneMoreBucketNeverLowers ==
  sevals = 2 => sout.score >= sprevOut.score

\* the four rejecting rules before the scoring pass
PassesEarlyRules(in) ==
  ~in.emptyTitle /\ PassesRemote(in) /\ ~in.excluded /\ ~in.senior /\ in.titleMatch

\* C21: when the early rules pass and k >= 2 buckets match, with p preference
\* signals, the score is 35 + min(7.5k, 45) + min(5p, 20), at most 100 (stated
\* in half points); 4 buckets and no signal give 65 and a match.
C21_ScoreIsTheSum ==
  (sevals > 0 /\ PassesEarlyRules(sin) /\ sin.hits >= 2) =>
    /\ 2 * sout.score =
         Min(70 + Min(15 * sin.hits, 90) + 2 * Min(5 * sin.prefs, 20), 200)
    /\ (sin.hits = 4 /\ sin.prefs = 0) => (sout.score = 65 /\ sout.isMatch)

\* C22: every result has a score in 0..100 and is a match exactly when the
\* score is at least 65.
C22_ScoreRangeAndMatch ==
  sevals > 0 =>
    /\ sout.score \in 0..100
    /\ sout.isMatch <=> sout.score >= 65

\* a posting with 4 buckets and no signal, evaluated twice: 65 and a match
C22_Witness ==
  /\ sevals = 3
  /\ sprevOut.score = 65
  /\ sprevOut.isMatch
  /\ sout.score = 65
  /\ sin.hits = 4

\* C23: evaluating the same input again gives the same result, whatever was
\* evaluated in between, and the evaluation leaves the module-level patterns
\* as they were.
C23_ClassifierIsPure ==
  /\ sevals = 3 => (sprev = sin /\ sout = sprevOut)
  /\ slastIndex = 0

\* a matching posting evaluated twice with other postings in between
C23_Witness ==
  /\ sevals = 3
  /\ sbetween
  /\ sout.isMatch

\* C24 as stated: a specific location and no remote signal anywhere give a
\* reject by the remote rule, score 0, reason: the location restriction.
C24_LocationRestricted ==
  (sevals > 0 /\ ~sin.emptyTitle /\ sin.loc = "specific" /\ ~sin.remoteSignals) =>
    (sout.rule = "remote" /\ sout.score = 0 /\ sout.reason = "location")

\* C24: the same for a posting that has no onsite/hybrid wording either; with
\* such wording the reject is the remote rule's too, with the onsite reason.
C24_LocationRestrictedNoOnsite ==
  (sevals > 0 /\ ~sin.emptyTitle /\ sin.loc = "specific" /\ ~sin.remoteSignals) =>
    /\ sout.rule = "remote" /\ sout.score = 0 /\ ~sout.isMatch
    /\ sout.reason = (IF sin.onsiteSignals THEN "onsite" ELSE "location")

\* a posting that would have matched but for its location
C24_Witness ==
  /\ sevals > 0
  /\ sin.loc = "specific"
  /\ ~sin.remoteSignals /\ ~sin.onsiteSignals
  /\ sin.titleMatch /\ sin.descLong /\ sin.hits >= 4
  /\ sout.reason = "location"

\* C25 as stated: an excluded stack in the title and a 6+ years requirement
\* give the exclusion reject, score 0, whatever else the posting says.
C25_ExclusionBeforeSeniority ==
  (sevals > 0 /\ ~sin.emptyTitle /\ sin.excluded /\ sin.senior /\ ~sin.titleMatch) =>
    (sout.rule = "exclusion" /\ sout.score = 0)

\* C25: the same for a posting that passes the remote rule, which runs first.
C25_ExclusionBeforeSeniorityWhenRemote ==
  (sevals > 0 /\ ~sin.emptyTitle /\ sin.excluded /\ sin.senior /\ ~sin.titleMatch) =>
    IF PassesRemote(sin)
    THEN sout.rule = "exclusion" /\ sout.reason = "exclusion" /\ sout.score = 0
    ELSE sout.rule = "remote" /\ sout.score = 0

\* a remote posting, excluded and senior at once
C25_Witness ==
  /\ sevals > 0
  /\ PassesRemote(sin) /\ sin.excluded /\ sin.senior /\ ~sin.titleMatch
  /\ sout.reason = "exclusion"

\* the confidence the bucket count stands for
BucketConfidence(k) == IF k >= 4 THEN "high" ELSE IF k >= 2 THEN "medium" ELSE "low"

\* C26 as stated: every result's confidence is the one of its bucket count.
C26_ConfidenceFromBuckets ==
  sevals > 0 => sout.confidence = BucketConfidence(sin.hits)

\* C26: the confidence is the one of the bucket count when the bucket rule
\* ran (a description of more than 50 characters reached it); the rejects of
\* the rules before it carry confidence high.
C26_ConfidenceFromBucketsWhenScored ==
  sevals > 0 =>
    /\ (PassesEarlyRules(sin) /\ sin.descLong) =>
         sout.confidence = BucketConfidence(sin.hits)
    /\ sout.rule \in {"remote", "exclusion", "senior", "title"} => sout.confidence = "high"

\* a scored posting with 3 buckets
C26_Witness ==
  /\ sevals > 0
  /\ PassesEarlyRules(sin) /\ sin.descLong
  /\ sin.hits = 3
  /\ sout.confidence = "medium"

\* C27: within one full-automation run the AI scoring is invoked only for jobs
\* that have a description and for at most AI_SCORE_LIMIT jobs, LinkedIn and
\* Indeed phases together; when the call fails or its output cannot be parsed
\* the score is the neutral 0.5 and no exception reaches the caller.
C27_ScoringBudgetAndNeutralDefault ==
  /\ aiCalls <= rcfg.limit
  /\ rlast.called => HasDescription(rlast.desc)
  /\ rlast.called /\ rlast.outcome \in {"callFails", "unparseable"}
       => rlast.score = NeutralScore /\ ~rlast.threw /\ rlast.queued

\* the budget's last scoring is made in the Indeed phase, after the LinkedIn
\* phase used a part of it, and the provider's output cannot be parsed
C27_Witness ==
  /\ rpc = "indeed"
  /\ rcfg.limit > 1
  /\ aiCalls = rcfg.limit
  /\ rleft > 0
  /\ rindeed - rleft = 1
  /\ rlast.called
  /\ rlast.outcome = "unparseable"

\* C28: within one application the AI-answering capability is called at most
\* once per normalized question label (further fields with the same label, in
\* the same step or a later one, are answered from the cache), and the cache
\* is not shared between applications: no call is made for a label that was
\* asked before in the same application, and an application starts with an
\* empty cache.
C28_OneCallPerLabel ==
  /\ ~wrepeat
  /\ wpc = "idle" => wasked = {} /\ wcache = EmptyCache

\* C29: in one step of the form loop at most AI_ANSWER_LIMIT questions are
\* answered by the AI-answering capability, all fill passes of the step
\* counted.
C29_AnswerLimitPerStep == wansStep <= wlimit

\* C30: for every experience-style question (its label mentions years or
\* experience) the value typed is never "0" (an answer of 0 or without a
\* number becomes "1"), whatever else the label contains; for a salary
\* numeric field whose answer has no number the value typed is "0".
C30_NumericFloors ==
  npc = "typed" =>
    /\ nfield.years \/ nfield.experience =>
         /\ ntyped # "0"
         /\ extractNumericAnswer(nfield.answer) \in {"", "0"} => ntyped = "1"
    /\ nfield.salary /\ extractNumericAnswer(nfield.answer) = "" => ntyped = "0"

\* C31: exact normalized match ranks highest: whenever the normalized text of
\* an option equals the normalized answer, pickBestOption selects such an
\* option, ahead of options that match by containment, yes/no keywords or
\* token overlap, whatever the order of the options.
C31_ExactMatchWins ==
  ppc = "chosen" /\ normalizeText(panswer) # <<>> =>
    ((\E i \in 1..Len(poptions) :
        normalizeText(OptionText(poptions[i])) = normalizeText(panswer))
      => /\ pbest # 0
         /\ normalizeText(OptionText(poptions[pbest])) = normalizeText(panswer))

\* some option of the control scores above zero against the answer
SomeOptionScores(options, answer) ==
  /\ normalizeText(answer) # <<>>
  /\ \E i \in 1..Len(options) : OptionScore(options[i], normalizeText(answer)).num > 0

\* C32: choice controls are never guessed blindly: pickBestOption returns no
\* choice exactly when no option scores above zero against the answer (so for
\* an empty answer and for blank options only), and then the select, radio
\* group or checkbox group is left untouched.
C32_NoBlindChoice ==
  ppc = "chosen" =>
    /\ pchoice = NullChoice <=> ~SomeOptionScores(poptions, panswer)
    /\ pchoice = NullChoice => ~ptouched

\* a radio group with two labelled options, none of which has anything in
\* common with the answer, is left as it was
C32_Witness ==
  /\ ppc = "chosen"
  /\ pkind = "radio"
  /\ normalizeText(panswer) # <<>>
  /\ Len(poptions) = 2
  /\ \A i \in 1..2 : normalizeText(OptionText(poptions[i])) # <<>>
  /\ pchoice = NullChoice
  /\ ~ptouched

C34_StepErrorNotSurfaced ==
  (fpc = "done" /\ fstep > 0) => foutcome # "THROWN"

\* C35: after an APPLIED outcome the page opened for the job is closed at
\* once; after a MANUAL_INTERVENTION outcome it is left open for the hold
\* duration and then closed by the timer; on every path of applyWithBrowser,
\* early validation failures and exceptions included, the page is closed in
\* the end: when applyWithBrowser has ended, the page is closed or the hold
\* timer that will close it is armed.
C35_PageClosedOnEveryPath ==
  bpc \in {"returned", "rejected"} =>
    /\ bpage = "closed" \/ (bpage = "open" /\ btimer)
    /\ bstatus = "APPLIED" => bpage = "closed" /\ bclosedBy = "finish"
    /\ bstatus = "MANUAL_INTERVENTION" => btimer \/ bclosedBy = "timer"

\* C36: a step of the form loop that sees no submit, review or next affordance
\* stops the flow with MANUAL_INTERVENTION, so that no later step of the run
\* clicks anything: the loop never stands before another step when the step
\* just done found nothing to act on.
C36_StallStopsFlow ==
  (fpc = "step" /\ fstep > 0) => fact # "stall"

\* C37: every run of the form flow ends, after at most MAX_STEPS loop bodies,
\* with exactly one of the statuses APPLIED, MANUAL_INTERVENTION and FAILED,
\* whatever affordances each step shows; a form whose review or next control
\* never advances it, clicked up to the last step, ends MANUAL_INTERVENTION.
C37_FlowTerminates ==
  /\ [](fstep <= MAX_STEPS)
  /\ [](fpc = "done" =>
          FlowStatus(foutcome) \in {"APPLIED", "MANUAL_INTERVENTION", "FAILED"})
  /\ [](fpc = "done" => foutcome # "NONE")
  /\ []((fpc = "done" /\ fstep = StepLimit(fsite) /\ flast \in {"review", "next"}
          /\ foutcome # "THROWN")
         => FlowStatus(foutcome) = "MANUAL_INTERVENTION")
  /\ [](fpc # "done" => foutcome = "NONE")
  /\ ((fpc \in {"scan", "entry", "open", "step"}) ~> (fpc = "done"))

\* a LinkedIn form stuck on its next control for all MAX_STEPS steps
C37_Witness ==
  /\ fpc = "done"
  /\ fsite = "linkedin"
  /\ fstep = MAX_STEPS
  /\ flast = "next"
  /\ foutcome = "MANUAL"

\* C38 (as stated): over all deliveries, requeues and retries of one
\* application the submit affordance is clicked at most once, given that a
\* submitted application makes the site show the previously-submitted marker
\* and no entry affordance.
C38_SubmitClickedAtMostOnce ==
  uclicks <= 1

\* C38 (amended): over all deliveries, requeues and retries of one application
\* at most one submit click is accepted by the site, and once one has been
\* accepted no delivery stands in the step loop, where submit is clicked.
C38_SubmittedAtMostOnce ==
  /\ uaccepted <= 1
  /\ usubmitted => (uaccepted = 1 /\ upc # "step")

\* a later delivery of a submitted application has ended its flow without a
\* submit click
C38_Witness ==
  /\ uattempts >= 1
  /\ usubmitted
  /\ ~urunClicked
  /\ upc = "record"

\* C39: validateMERNJob never passes without a description of more than 50
\* characters: the score is then at most 55, below the cutoff 65.  So the
\* search pre-filter keeps a result only under FORCE_APPLY, and the page-title
\* check of applyWithBrowser rejects every LinkedIn job page with a title.
C39_NoPassWithoutDescription ==
  sevals > 0 =>
    /\ ~sin.descLong =>
         (~sout.isMatch /\ ~validateMERNJob(sin).pass
            /\ sout.score <= TitlePoints + PrefCap /\ sout.score < MatchThreshold)
    /\ \A forceApply \in BOOLEAN : PreFilterKeeps(forceApply, sin) <=> forceApply
    /\ ~sin.emptyTitle => PageTitleRejects(sin)

\* a remote posting with a matching title, every preference signal and no
\* description gets the highest score a title alone can get, and is no match
C39_Witness ==
  /\ sevals > 0
  /\ ~sin.descLong
  /\ sin.hits = 0
  /\ sin.titleMatch
  /\ sin.prefs = NumPrefs
  /\ sout.rule = "none"
  /\ sout.score = TitlePoints + PrefCap
  /\ ~sout.isMatch
  /\ PageTitleRejects(sin)

\* C40: when a context closes that is no longer its user's cache entry (a
\* stale context closed after a relaunch, the earlier of two launches for one
\* user), the cache is left as it is: the newer context's entry stays, and so
\* does every other user's entry.
C40_StaleCloseKeepsCache ==
  [][\A c \in CtxIds :
       (ctxOpen[c] /\ ~ctxOpen'[c] /\ contexts[ctxUser[c]] # c) => contexts' = contexts]_vars

TypeOK ==
  /\ pc \in {"ensureGroup", "read", "parse", "processJob", "awb_getContext", "awb_retry",
             "awb_try", "awb_flow", "awb_record", "awb_notify", "awb_finish", "awb_catch",
             "awb_catch_notify", "awb_catch_publish", "publishFinished", "xack", "catch",
             "catch_publish", "catch_ack", "exited"}
  /\ Len(acks) = Len(stream)
  /\ lastDelivered <= Len(stream)

====
